---- MODULE Spec2Model ----
(***************************************************************************)
(* Hierarchy resolution and caching engine of ini_class_parser:            *)
(* CacheManager (src/src/ini_class_parser/cache.py), the incremental load   *)
(* of INIClassParser.get_category_entries and the path walk of             *)
(* ClassHierarchyAPI (src/src/ini_class_parser/api.py).                     *)
(***************************************************************************)
EXTENDS Integers, Sequences, FiniteSets, TLC

(* ------------------------------ bounds -------------------------------- *)
\* number of class names in play
NumNames == 3
\* longest batch handed to bulk_add_entries by the BulkAdd action
MaxBatch == 2
\* CacheManager operations followed loop by loop in one behaviour
MaxCalls == 2
\* elements of the facade's path list that are recorded (the list itself is unbounded)
MaxApiPath == 4
\* number of index mutations (bulk or incremental) in one behaviour
MaxAdds == 2
\* threads calling into one CacheManager
NumThreads == 2
\* CacheManager calls made by each thread
MaxThreadCalls == 1
\* CategoryCache objects created in one behaviour
MaxObjects == 3
\* records per bulk_add_entries batch when the manager holds two categories
MaxCategoryBatch == 1
\* class names asked about when the manager holds two categories
MaxQueryNames == 2
\* numbered rows in a section of the file
MaxRows == 2
\* characters in the NumProperties field of a row
MaxTokenLen == 2

NameSeq == <<"A", "B", "a", "C">>
Names == {NameSeq[i] : i \in 1..NumNames}
\* inherits_from is a class name or the empty string (root)
Parents == Names \cup {""}
Cats == {"CategoryData_CfgVehicles"}

(* ------------------------------ helpers ------------------------------- *)
EmptyMap == [x \in {} |-> ""]
MapPut(m, k, v) == [x \in DOMAIN m \cup {k} |-> IF x = k THEN v ELSE m[x]]
\* dict.update / {**a, **b}: b wins
MapUpdate(a, b) == [x \in DOMAIN a \cup DOMAIN b |-> IF x \in DOMAIN b THEN b[x] ELSE a[x]]
Contains(s, x) == \E i \in 1..Len(s) : s[i] = x
\* list.index: first position of x
IndexOf(s, x) == CHOOSE i \in 1..Len(s) : s[i] = x /\ \A j \in 1..(i-1) : s[j] # x
Range(s) == {s[i] : i \in 1..Len(s)}
\* str.lower on the names in play
Lower(n) == CASE n = "A" -> "a" [] n = "B" -> "b" [] n = "C" -> "c" [] OTHER -> n

(* ------------------------------ records ------------------------------- *)
ConfigEntry == [class_name : Names, inherits_from : Parents]
\* Python None where an entry is expected
NoneEntry == [class_name |-> "", inherits_from |-> ""]
\* CategoryCache(): every mapping empty, header None
CategoryCache(entries, entries_lower, children, descendants, inheritance_paths, header) ==
  [entries |-> entries, entries_lower |-> entries_lower, children |-> children,
   descendants |-> descendants, inheritance_paths |-> inheritance_paths,
   header |-> header]
EmptyCache == CategoryCache(EmptyMap, EmptyMap, EmptyMap, EmptyMap, EmptyMap, "None")

VARIABLES
  categories,               \* CacheManager._categories
  class_to_category,        \* CacheManager._class_to_category
  class_to_category_lower,  \* CacheManager._class_to_category_lower
  nAdds,                    \* index mutations so far
  run,                      \* the CacheManager operation in progress, loop by loop
  api,                      \* ClassHierarchyAPI: its _cache and the call in progress
  held,                     \* the list or set a caller holds from its last query
  threads,                  \* the CacheManager call each thread is in, and its locals
  heap,                     \* the CategoryCache objects created so far, and who refers to them
  parser,                   \* INIClassParser: the rows of its file and how construction ended
  raised                    \* the exception the last set_header call ended with ("" if none)

vars == <<categories, class_to_category, class_to_category_lower, nAdds, run, api, held, threads, heap, parser, raised>>
\* what the callers of CacheManager hold or were handed, and the file the parser
\* was built from
clients == <<held, threads, heap, parser, raised>>
manager == <<categories, class_to_category, class_to_category_lower, nAdds>>

(* -------------------------- CacheManager ------------------------------ *)
\* self._categories.get(category, CategoryCache())
CatGet(cats, category) == IF category \in DOMAIN cats THEN cats[category] ELSE EmptyCache

get_or_create_cache(cats, category) ==
  IF category \in DOMAIN cats THEN cats ELSE MapPut(cats, category, EmptyCache)

\* get_entry resolving the name through the lowercase alias map by default
get_entry_ignores_case(cats, category, class_name) ==
  IF category \notin DOMAIN cats THEN NoneEntry
  ELSE IF Lower(class_name) \in DOMAIN cats[category].entries_lower
       THEN cats[category].entries[cats[category].entries_lower[Lower(class_name)]]
       ELSE NoneEntry

get_entry(cats, category, class_name) ==
  IF category \notin DOMAIN cats THEN NoneEntry
  ELSE IF class_name \in DOMAIN cats[category].entries
       THEN cats[category].entries[class_name] ELSE NoneEntry

\* get_entry(case_sensitive=False) trying the exact spelling before the alias
get_entry_prefers_exact(cats, category, class_name) ==
  IF category \notin DOMAIN cats THEN NoneEntry
  ELSE LET cache == cats[category]
       IN IF class_name \in DOMAIN cache.entries THEN cache.entries[class_name]
          ELSE IF Lower(class_name) \in DOMAIN cache.entries_lower
                  /\ cache.entries_lower[Lower(class_name)] \in DOMAIN cache.entries
               THEN cache.entries[cache.entries_lower[Lower(class_name)]]
               ELSE NoneEntry

\* get_entry(category, class_name, case_sensitive=False)
get_entry_case_insensitive(cats, category, class_name) ==
  IF category \notin DOMAIN cats THEN NoneEntry
  ELSE LET cache == cats[category]
       IN IF Lower(class_name) \in DOMAIN cache.entries_lower
          THEN LET original_name == cache.entries_lower[Lower(class_name)]
               IN IF original_name \in DOMAIN cache.entries
                  THEN cache.entries[original_name] ELSE NoneEntry
          ELSE NoneEntry

\* get_category_for_class over the two manager-wide maps; "None" is Python None
get_category_for_class(by_name, by_lower, class_name, case_sensitive) ==
  IF case_sensitive
  THEN IF class_name \in DOMAIN by_name THEN by_name[class_name] ELSE "None"
  ELSE IF Lower(class_name) \in DOMAIN by_lower THEN by_lower[Lower(class_name)] ELSE "None"

get_children(cats, category, class_name) ==
  IF category \notin DOMAIN cats THEN {}
  ELSE IF class_name \in DOMAIN cats[category].children
       THEN cats[category].children[class_name] ELSE {}

\* get_children_bulk: one set of children per requested name, read from the
\* category's snapshot; an absent category is not created
get_children_bulk(cats, category, class_names) ==
  [name \in class_names |-> get_children(cats, category, name)]

\* result of _detect_inheritance_cycle: None, or the cycle found
NoCycle == [found |-> FALSE, cycle |-> <<>>]

RECURSIVE detect_loop(_, _, _, _, _)
detect_loop(cats, category, current, path, visited) ==
  IF current = "" THEN NoCycle
  ELSE IF current \in visited
       THEN IF Contains(path, current)
            THEN [found |-> TRUE, cycle |-> SubSeq(path, IndexOf(path, current), Len(path))]
            ELSE NoCycle
       ELSE LET entry == get_entry(cats, category, current)
            IN IF entry = NoneEntry \/ entry.inherits_from = ""
               THEN NoCycle
               ELSE detect_loop(cats, category, entry.inherits_from,
                                Append(path, current), visited \cup {current})

_detect_inheritance_cycle(cats, category, start_class, visited) ==
  detect_loop(cats, category, start_class, <<>>, visited)

\* walk_loop with the unresolved pointer appended before the walk stops
RECURSIVE walk_loop_keeps_unresolved(_, _, _, _)
walk_loop_keeps_unresolved(entries, current, path, visited) ==
  IF current = "" THEN path
  ELSE IF current \in visited THEN path
  ELSE IF current \notin DOMAIN entries THEN Append(path, current)
  ELSE IF entries[current].inherits_from = ""
       THEN Append(path, current)
       ELSE walk_loop_keeps_unresolved(entries, entries[current].inherits_from,
                                       Append(path, current), visited \cup {current})

\* walk_loop that records the class and its direct parent and does not loop on
walk_loop_one_level(entries, current, path, visited) ==
  IF current = "" \/ current \in visited \/ current \notin DOMAIN entries THEN path
  ELSE LET parent == entries[current].inherits_from
       IN IF parent = "" \/ parent = current \/ parent \notin DOMAIN entries
          THEN Append(path, current)
          ELSE Append(Append(path, current), parent)

\* walk_loop with the repeated name appended before the walk stops
RECURSIVE walk_loop_closes_cycle(_, _, _, _)
walk_loop_closes_cycle(entries, current, path, visited) ==
  IF current = "" THEN path
  ELSE IF current \in visited THEN Append(path, current)
  ELSE IF current \notin DOMAIN entries THEN path
  ELSE IF entries[current].inherits_from = ""
       THEN Append(path, current)
       ELSE walk_loop_closes_cycle(entries, entries[current].inherits_from,
                                   Append(path, current), visited \cup {current})

\* the walk shared by get_inheritance_path (normal path calculation),
\* get_inheritance_paths_bulk, precompute_all_paths and _get_raw_path
RECURSIVE walk_loop(_, _, _, _)
walk_loop(entries, current, path, visited) ==
  IF current = "" THEN path
  ELSE IF current \in visited \/ current \notin DOMAIN entries THEN path
  ELSE IF entries[current].inherits_from = ""
       THEN Append(path, current)
       ELSE walk_loop(entries, entries[current].inherits_from,
                      Append(path, current), visited \cup {current})

_get_raw_path(cats, category, class_name) ==
  IF category \notin DOMAIN cats \/ class_name \notin DOMAIN cats[category].entries
  THEN <<>>
  ELSE walk_loop(cats[category].entries, class_name, <<>>, {})

\* the path get_inheritance_path computes on a memo miss
compute_path(cats, category, class_name) ==
  LET cycle == _detect_inheritance_cycle(cats, category, class_name, {})
  IN IF cycle.found /\ cycle.cycle # <<>>
     THEN cycle.cycle
     ELSE walk_loop(CatGet(cats, category).entries, class_name, <<>>, {})

\* get_inheritance_path: the returned list
get_inheritance_path(cats, category, class_name) ==
  LET cache == CatGet(cats, category)
  IN IF class_name \notin DOMAIN cache.entries THEN <<>>
     ELSE IF class_name \notin DOMAIN cache.inheritance_paths
          THEN compute_path(get_or_create_cache(cats, category), category, class_name)
          ELSE cache.inheritance_paths[class_name]

\* get_inheritance_path memoizing the plain walk whatever it returns
get_inheritance_path_store_raw(cats, category, class_name) ==
  LET cats1 == get_or_create_cache(cats, category)
      cache == cats1[category]
  IN IF class_name \notin DOMAIN cache.entries THEN cats1
     ELSE IF class_name \notin DOMAIN cache.inheritance_paths
          THEN MapPut(cats1, category,
                 CategoryCache(cache.entries, cache.entries_lower, cache.children,
                               cache.descendants,
                               MapPut(cache.inheritance_paths, class_name,
                                      _get_raw_path(cats1, category, class_name)),
                               "None"))
          ELSE cats1

\* get_inheritance_path: self._categories after the call
get_inheritance_path_store(cats, category, class_name) ==
  LET cats1 == get_or_create_cache(cats, category)
      cache == cats1[category]
  IN IF class_name \notin DOMAIN cache.entries THEN cats1
     ELSE IF class_name \notin DOMAIN cache.inheritance_paths
          THEN MapPut(cats1, category,
                 CategoryCache(cache.entries, cache.entries_lower, cache.children,
                               cache.descendants,
                               MapPut(cache.inheritance_paths, class_name,
                                      compute_path(cats1, category, class_name)),
                               "None"))
          ELSE cats1

\* add_entry that leaves the lowercase alias map as it was
add_entry_skips_alias(cats, category, entry) ==
  LET cur == CatGet(cats, category)
  IN MapPut(cats, category,
       CategoryCache(MapPut(cur.entries, entry.class_name, entry),
                     cur.entries_lower,
                     cur.children, cur.descendants, cur.inheritance_paths, "None"))

\* add_entry that leaves a name's record alone once it has one
add_entry_keeps_first(cats, category, entry) ==
  LET cur == CatGet(cats, category)
  IN MapPut(cats, category,
       CategoryCache(IF entry.class_name \in DOMAIN cur.entries THEN cur.entries
                     ELSE MapPut(cur.entries, entry.class_name, entry),
                     MapPut(cur.entries_lower, Lower(entry.class_name), entry.class_name),
                     cur.children, cur.descendants, cur.inheritance_paths, "None"))

\* add_entry storing the record in every category the manager knows
add_entry_every_category(cats, category, entry) ==
  [c \in DOMAIN cats \cup {category} |->
     LET cur == CatGet(cats, c)
     IN CategoryCache(MapPut(cur.entries, entry.class_name, entry),
                      MapPut(cur.entries_lower, Lower(entry.class_name), entry.class_name),
                      cur.children, cur.descendants, cur.inheritance_paths, "None")]

add_entry(cats, category, entry) ==
  LET cur == CatGet(cats, category)
  IN MapPut(cats, category,
       CategoryCache(MapPut(cur.entries, entry.class_name, entry),
                     MapPut(cur.entries_lower, Lower(entry.class_name), entry.class_name),
                     cur.children, cur.descendants, cur.inheritance_paths, "None"))

\* add_child that starts the parent's set afresh instead of copying it
add_child_drops_siblings(cats, category, parent, child) ==
  LET cur == CatGet(cats, category)
  IN MapPut(cats, category,
       CategoryCache(cur.entries, cur.entries_lower,
                     MapPut(cur.children, parent, {child}),
                     cur.descendants, cur.inheritance_paths, "None"))

add_child(cats, category, parent, child) ==
  LET cur == CatGet(cats, category)
      children_set == (IF parent \in DOMAIN cur.children THEN cur.children[parent] ELSE {})
                        \cup {child}
  IN MapPut(cats, category,
       CategoryCache(cur.entries, cur.entries_lower,
                     MapPut(cur.children, parent, children_set),
                     cur.descendants, cur.inheritance_paths, "None"))

\* entries_dict = {entry.class_name: entry for entry in entries}
RECURSIVE entries_dict(_)
entries_dict(batch) ==
  IF batch = <<>> THEN EmptyMap
  ELSE LET e == batch[Len(batch)]
       IN MapPut(entries_dict(SubSeq(batch, 1, Len(batch) - 1)), e.class_name, e)

\* dict keys in insertion order (first occurrence of each class_name)
RECURSIVE key_order(_)
key_order(batch) ==
  IF batch = <<>> THEN <<>>
  ELSE LET front == key_order(SubSeq(batch, 1, Len(batch) - 1))
           k == batch[Len(batch)].class_name
       IN IF Contains(front, k) THEN front ELSE Append(front, k)

\* {k.lower(): k for k in entries.keys()}
RECURSIVE lower_map(_)
\* a variant that keys each alias by the name as written
lower_map_unlowered(keys) == [k \in {keys[i] : i \in DOMAIN keys} |-> k]

lower_map(keys) ==
  IF keys = <<>> THEN EmptyMap
  ELSE LET k == keys[Len(keys)]
       IN MapPut(lower_map(SubSeq(keys, 1, Len(keys) - 1)), Lower(k), k)

create_bulk(batch) ==
  LET ed == entries_dict(batch)
      parents == {ed[n].inherits_from : n \in DOMAIN ed} \ {""}
      children_map == [p \in parents |-> {n \in DOMAIN ed : ed[n].inherits_from = p}]
  IN CategoryCache(ed, lower_map(key_order(batch)), children_map, EmptyMap, EmptyMap, "None")

\* bulk_add_entries adding the batch to the index the category has
bulk_add_entries_merges(cats, category, batch) ==
  LET cur == CatGet(cats, category)
      new == create_bulk(batch)
  IN MapPut(cats, category,
       CategoryCache(MapUpdate(cur.entries, new.entries),
                     MapUpdate(cur.entries_lower, new.entries_lower),
                     MapUpdate(cur.children, new.children),
                     cur.descendants, cur.inheritance_paths, "None"))

bulk_add_entries(cats, category, batch) == MapPut(cats, category, create_bulk(batch))

\* update_cache(category, {aspect: values}) for the two aspects its callers use
update_cache(cats, category, aspect, values) ==
  LET current == CatGet(cats, category)
  IN MapPut(cats, category,
       CategoryCache(current.entries, current.entries_lower, current.children,
                     IF aspect = "descendants"
                       THEN MapUpdate(current.descendants, values) ELSE current.descendants,
                     IF aspect = "inheritance_paths"
                       THEN MapUpdate(current.inheritance_paths, values)
                       ELSE current.inheritance_paths,
                     current.header))

\* get_inheritance_paths_bulk: the returned dict
get_inheritance_paths_bulk(cats, category, class_names) ==
  LET cache == CatGet(cats, category)
  IN [name \in class_names |->
        IF name \in DOMAIN cache.inheritance_paths THEN cache.inheritance_paths[name]
        ELSE IF name \notin DOMAIN cache.entries THEN <<>>
        ELSE walk_loop(cache.entries, name, <<>>, {})]

\* get_inheritance_paths_bulk: self._categories after the call
get_inheritance_paths_bulk_store(cats, category, class_names) ==
  LET cats1 == get_or_create_cache(cats, category)
      cache == cats1[category]
      to_compute == class_names \ DOMAIN cache.inheritance_paths
      new_paths == [name \in to_compute \cap DOMAIN cache.entries |->
                      walk_loop(cache.entries, name, <<>>, {})]
  IN IF DOMAIN new_paths = {} THEN cats1
     ELSE update_cache(cats1, category, "inheritance_paths", new_paths)

\* precompute_all_paths: self._categories after the call (the sort by
\* len(_get_raw_path) fixes only the order in which the dict is filled)
precompute_all_paths(cats, category) ==
  LET cats1 == get_or_create_cache(cats, category)
      cache == cats1[category]
      new_paths == [class_name \in DOMAIN cache.entries \ DOMAIN cache.inheritance_paths |->
                      walk_loop(cache.entries, class_name, <<>>, {})]
  IN IF DOMAIN cache.entries = {} \/ DOMAIN new_paths = {} THEN cats1
     ELSE update_cache(cats1, category, "inheritance_paths", new_paths)

\* compute_descendants that stops at the direct children
compute_descendants_direct_only(cats, category, class_name) ==
  LET cats1 == get_or_create_cache(cats, category)
      cache == cats1[category]
  IN IF class_name \in DOMAIN cache.descendants THEN cache.descendants[class_name]
     ELSE {cls \in DOMAIN cache.entries \ {class_name} :
             cache.entries[cls].inherits_from = class_name}

\* compute_descendants that looks at the last element of each path only
compute_descendants_roots_only(cats, category, class_name) ==
  LET cats1 == get_or_create_cache(cats, category)
      cache == cats1[category]
  IN IF class_name \in DOMAIN cache.descendants THEN cache.descendants[class_name]
     ELSE {cls \in DOMAIN cache.entries \ {class_name} :
             LET path == get_inheritance_path(cats1, category, cls)
             IN path # <<>> /\ path[Len(path)] = class_name}

\* compute_descendants: the returned set.  Each get_inheritance_path call of
\* the loop reads the entries and the memo entry of its own class only, so
\* the snapshots it publishes for the other classes do not change its result.
compute_descendants(cats, category, class_name) ==
  LET cats1 == get_or_create_cache(cats, category)
      cache == cats1[category]
  IN IF class_name \in DOMAIN cache.descendants THEN cache.descendants[class_name]
     ELSE {cls \in DOMAIN cache.entries \ {class_name} :
             Contains(get_inheritance_path(cats1, category, cls), class_name)}

\* compute_descendants: self._categories after the call; the final
\* CategoryCache(...) is built from the snapshot read on entry
\* a variant that publishes the new snapshot without the children index
compute_descendants_store_drops_children(cats, category, class_name) ==
  LET cats1 == get_or_create_cache(cats, category)
      cache == cats1[category]
  IN IF class_name \in DOMAIN cache.descendants THEN cats1
     ELSE MapPut(cats1, category,
            CategoryCache(cache.entries, cache.entries_lower, EmptyMap,
                          MapPut(cache.descendants, class_name,
                                 compute_descendants(cats, category, class_name)),
                          cache.inheritance_paths, "None"))

compute_descendants_store(cats, category, class_name) ==
  LET cats1 == get_or_create_cache(cats, category)
      cache == cats1[category]
  IN IF class_name \in DOMAIN cache.descendants THEN cats1
     ELSE MapPut(cats1, category,
            CategoryCache(cache.entries, cache.entries_lower, cache.children,
                          MapPut(cache.descendants, class_name,
                                 compute_descendants(cats, category, class_name)),
                          cache.inheritance_paths, "None"))

\* self._categories after get_inheritance_path has run for every class
paths_for_all(cats, category) ==
  LET cats1 == get_or_create_cache(cats, category)
      cache == cats1[category]
      missing == DOMAIN cache.entries \ DOMAIN cache.inheritance_paths
  IN IF missing = {} THEN cats1
     ELSE MapPut(cats1, category,
            CategoryCache(cache.entries, cache.entries_lower, cache.children,
                          cache.descendants,
                          MapUpdate(cache.inheritance_paths,
                                    [c \in missing |-> compute_path(cats1, category, c)]),
                          "None"))

\* compute_descendants_bulk adding each class under every element of its
\* path, path[0] included
compute_descendants_bulk_keeps_self(cats, category) ==
  LET cats1 == get_or_create_cache(cats, category)
      all_classes == DOMAIN cats1[category].entries
      paths == [c \in all_classes |-> get_inheritance_path(cats1, category, c)]
      ancestors == UNION {Range(paths[c]) : c \in all_classes}
      descendants == [a \in ancestors |-> {c \in all_classes : a \in Range(paths[c])}]
  IN update_cache(paths_for_all(cats, category), category, "descendants", descendants)

\* compute_descendants_bulk giving every class of entries a key, the empty set
\* for a class that is on no other class's path
compute_descendants_bulk_fills_leaves(cats, category) ==
  LET cats1 == get_or_create_cache(cats, category)
      all_classes == DOMAIN cats1[category].entries
      paths == [c \in all_classes |-> get_inheritance_path(cats1, category, c)]
      descendants == [a \in all_classes |->
                        {c \in all_classes : paths[c] # <<>> /\ a \in Range(Tail(paths[c]))}]
  IN update_cache(paths_for_all(cats, category), category, "descendants", descendants)

\* compute_descendants_bulk: self._categories after the call
compute_descendants_bulk(cats, category) ==
  LET cats1 == get_or_create_cache(cats, category)
      all_classes == DOMAIN cats1[category].entries
      paths == [c \in all_classes |-> get_inheritance_path(cats1, category, c)]
      ancestors == UNION {Range(Tail(paths[c])) : c \in {d \in all_classes : paths[d] # <<>>}}
      descendants == [a \in ancestors |->
                        {c \in all_classes : paths[c] # <<>> /\ a \in Range(Tail(paths[c]))}]
  IN update_cache(paths_for_all(cats, category), category, "descendants", descendants)

(* ------------------------------ inputs -------------------------------- *)
Batches(n) == UNION {[1..k -> ConfigEntry] : k \in 0..n}

(* ------------------------------ actions ------------------------------- *)
RunIdle ==
  [op |-> "idle", category |-> "", arg |-> "", stage |-> "", todo |-> {}, cls |-> "",
   loop |-> "none", current |-> "", path |-> <<>>, visited |-> {},
   snapshot |-> EmptyCache, result |-> {}, descendants |-> EmptyMap,
   new_paths |-> EmptyMap, before |-> EmptyMap, calls |-> 0]

\* the caller holds nothing
NoObject == [kind |-> "none", list |-> <<>>, set |-> {}, cached |-> FALSE, aspect |-> "",
             category |-> "", name |-> "", mutated |-> FALSE]

Threads == 1..NumThreads
\* a thread outside any CacheManager call; completed lists the calls it has
\* returned from
ThreadIdle ==
  [pc |-> "idle", category |-> "", entry |-> NoneEntry, parent |-> "", child |-> "",
   class_name |-> "", temp_entries |-> EmptyMap, temp_entries_lower |-> EmptyMap,
   cache |-> EmptyCache, completed |-> {}]

\* no CategoryCache object yet: objs are the objects still referred to, by
\* identity; at is the object self._categories refers to for each category,
\* reader the object a reader got hold of (0: none) and seen what it read in
\* it then; made counts the objects constructed
EmptyHeap == [objs |-> EmptyMap, at |-> EmptyMap, reader |-> 0, seen |-> EmptyCache,
              made |-> 0]

\* a parser whose file plays no part: its categories are given directly
NoFile == [rows |-> <<>>, status |-> "none"]

ApiIdle ==
  [cache |-> EmptyMap, pc |-> "idle", category |-> "", current |-> "", path |-> <<>>,
   parity |-> 0,
   \* _case_map, the order in which _cache got its keys, and the facade call
   \* in progress with its arguments and its return value
   case_map |-> EmptyMap, order |-> <<>>, op |-> "", args |-> <<>>, answer |-> ""]

Init ==
  /\ categories = EmptyMap
  /\ class_to_category = EmptyMap
  /\ class_to_category_lower = EmptyMap
  /\ nAdds = 0
  /\ run = RunIdle
  /\ api = ApiIdle
  /\ held = NoObject
  /\ threads = [t \in Threads |-> ThreadIdle]
  /\ heap = EmptyHeap
  /\ parser = NoFile
  /\ raised = ""

\* INIClassParser._parse_file: the category is loaded by one bulk_add_entries
\* (a section without well-formed rows is not loaded at all)
InitLoaded ==
  \E category \in Cats, batch \in Batches(NumNames) :
    /\ categories = IF batch = <<>> THEN EmptyMap
                    ELSE bulk_add_entries(EmptyMap, category, batch)
    /\ class_to_category = [n \in DOMAIN entries_dict(batch) |-> category]
    /\ class_to_category_lower = [l \in {Lower(n) : n \in DOMAIN entries_dict(batch)} |-> category]
    /\ nAdds = 0
    /\ run = RunIdle
    /\ api = ApiIdle
    /\ held = NoObject
    /\ threads = [t \in Threads |-> ThreadIdle]
    /\ heap = EmptyHeap
    /\ parser = NoFile
    /\ raised = ""

BulkAdd(category, batch) ==
  /\ nAdds < MaxAdds
  /\ nAdds' = nAdds + 1
  /\ categories' = bulk_add_entries(categories, category, batch)
  /\ class_to_category' =
       MapUpdate(class_to_category, [n \in DOMAIN entries_dict(batch) |-> category])
  /\ class_to_category_lower' =
       MapUpdate(class_to_category_lower,
                 [l \in {Lower(n) : n \in DOMAIN entries_dict(batch)} |-> category])
  /\ UNCHANGED <<run, api, clients>>

\* INIClassParser.get_category_entries, lines 135-138: add_entry, then
\* add_child when the record names a parent
AddRecord(category, entry) ==
  /\ nAdds < MaxAdds
  /\ nAdds' = nAdds + 1
  /\ categories' =
       LET cats1 == add_entry(categories, category, entry)
       IN IF entry.inherits_from # ""
          THEN add_child(cats1, category, entry.inherits_from, entry.class_name)
          ELSE cats1
  /\ class_to_category' = MapPut(class_to_category, entry.class_name, category)
  /\ class_to_category_lower' =
       MapPut(class_to_category_lower, Lower(entry.class_name), category)
  /\ UNCHANGED <<run, api, clients>>

GetInheritancePath(category, class_name) ==
  /\ categories' = get_inheritance_path_store(categories, category, class_name)
  /\ UNCHANGED <<class_to_category, class_to_category_lower, nAdds, run, api, clients>>

GetInheritancePathsBulk(category, class_names) ==
  /\ categories' = get_inheritance_paths_bulk_store(categories, category, class_names)
  /\ UNCHANGED <<class_to_category, class_to_category_lower, nAdds, run, api, clients>>

PrecomputeAllPaths(category) ==
  /\ categories' = precompute_all_paths(categories, category)
  /\ UNCHANGED <<class_to_category, class_to_category_lower, nAdds, run, api, clients>>

ComputeDescendants(category, class_name) ==
  /\ categories' = compute_descendants_store(categories, category, class_name)
  /\ UNCHANGED <<class_to_category, class_to_category_lower, nAdds, run, api, clients>>

ComputeDescendantsBulk(category) ==
  /\ categories' = compute_descendants_bulk(categories, category)
  /\ UNCHANGED <<class_to_category, class_to_category_lower, nAdds, run, api, clients>>

PathQuery ==
  \E category \in Cats :
    \/ \E class_name \in Names : GetInheritancePath(category, class_name)
    \/ \E class_names \in SUBSET Names : GetInheritancePathsBulk(category, class_names)
    \/ PrecomputeAllPaths(category)

DescendantQuery ==
  \E category \in Cats :
    \/ \E class_name \in Names : ComputeDescendants(category, class_name)
    \/ ComputeDescendantsBulk(category)

\* get_entry, get_children and get_children_bulk read the published snapshot
\* and assign nothing
GetEntry(category, class_name, case_sensitive) ==
  /\ (IF case_sensitive THEN get_entry(categories, category, class_name)
                        ELSE get_entry_case_insensitive(categories, category, class_name))
       \in ConfigEntry \cup {NoneEntry}
  /\ UNCHANGED vars

GetChildren(category, class_name) ==
  /\ get_children(categories, category, class_name) \subseteq Names
  /\ UNCHANGED vars

GetChildrenBulk(category, class_names) ==
  /\ DOMAIN get_children_bulk(categories, category, class_names) = class_names
  /\ UNCHANGED vars

ReadQuery ==
  \E category \in Cats :
    \/ \E class_name \in Names : \E case_sensitive \in BOOLEAN :
         GetEntry(category, class_name, case_sensitive)
    \/ \E class_name \in Names : GetChildren(category, class_name)
    \/ \E class_names \in SUBSET Names : GetChildrenBulk(category, class_names)

Query == PathQuery \/ DescendantQuery \/ ReadQuery

Mutate ==
  \E category \in Cats :
    \/ \E batch \in Batches(MaxBatch) : BulkAdd(category, batch)
    \/ \E entry \in ConfigEntry : AddRecord(category, entry)

Next == Mutate \/ Query

\* direct use of CacheManager: loads, incremental additions and queries
Spec == Init /\ [][Next]_vars

\* the parser's life cycle: one bulk load, then queries only
SpecQuery == InitLoaded /\ [][Query]_vars

\* the same, path queries only
SpecPaths == InitLoaded /\ [][PathQuery]_vars

(* ------------- CacheManager mutations, one call at a time ------------- *)
\* CacheManager.add_entry called on its own
AddEntry(category, entry) ==
  /\ nAdds < MaxAdds
  /\ nAdds' = nAdds + 1
  /\ categories' = add_entry(categories, category, entry)
  /\ class_to_category' = MapPut(class_to_category, entry.class_name, category)
  /\ class_to_category_lower' =
       MapPut(class_to_category_lower, Lower(entry.class_name), category)
  /\ UNCHANGED <<run, api, clients>>

\* CacheManager.add_child called on its own
AddChild(category, parent, child) ==
  /\ nAdds < MaxAdds
  /\ nAdds' = nAdds + 1
  /\ categories' = add_child(categories, category, parent, child)
  /\ UNCHANGED <<class_to_category, class_to_category_lower, run, api, clients>>

NextIndex ==
  \/ Mutate
  \/ \E category \in Cats, entry \in ConfigEntry : AddEntry(category, entry)
  \/ \E category \in Cats, parent \in Names, child \in Names : AddChild(category, parent, child)

\* the mutating operations of CacheManager, each called on its own
SpecIndex == Init /\ [][NextIndex]_vars

(* ------------------- what the queries hand out ------------------------ *)
\* a list handed out by a query; cached tells whether that very object is
\* also the one the snapshot keeps for the class
ListObject(aspect, category, name, value, cached) ==
  [kind |-> "list", list |-> value, set |-> {}, cached |-> cached, aspect |-> aspect,
   category |-> category, name |-> name, mutated |-> FALSE]
SetObject(aspect, category, name, value, cached) ==
  [kind |-> "set", list |-> <<>>, set |-> value, cached |-> cached, aspect |-> aspect,
   category |-> category, name |-> name, mutated |-> FALSE]

\* get_inheritance_path storing the list it returns in place of tuple(path)
returned_path_is_stored(cats, category, class_name) ==
  ListObject("inheritance_paths", category, class_name,
             get_inheritance_path(cats, category, class_name),
             /\ class_name \in DOMAIN CatGet(cats, category).entries
             /\ class_name \notin DOMAIN CatGet(cats, category).inheritance_paths)

\* get_inheritance_path: "return path" after tuple(path) has been stored, or
\* "return list(cache.inheritance_paths[class_name])"
returned_path(cats, category, class_name) ==
  ListObject("inheritance_paths", category, class_name,
             get_inheritance_path(cats, category, class_name), FALSE)

\* get_inheritance_paths_bulk: result[name], list(...) of the memo or the
\* path whose tuple(path) goes to new_paths
returned_bulk_path(cats, category, class_names, name) ==
  ListObject("inheritance_paths", category, name,
             get_inheritance_paths_bulk(cats, category, class_names)[name], FALSE)

\* compute_descendants: set(cache.descendants[class_name]), or result after
\* frozenset(result) has been stored
returned_descendants(cats, category, class_name) ==
  SetObject("descendants", category, class_name,
            compute_descendants(cats, category, class_name), FALSE)

\* get_children: set(children.get(class_name, frozenset()))
returned_children(cats, category, class_name) ==
  SetObject("children", category, class_name,
            get_children(cats, category, class_name), FALSE)

CallGetInheritancePath(category, class_name) ==
  /\ categories' = get_inheritance_path_store(categories, category, class_name)
  /\ held' = returned_path(categories, category, class_name)
  /\ UNCHANGED <<class_to_category, class_to_category_lower, nAdds, run, api, threads, heap, parser, raised>>

CallGetInheritancePathsBulk(category, class_names, name) ==
  /\ name \in class_names
  /\ categories' = get_inheritance_paths_bulk_store(categories, category, class_names)
  /\ held' = returned_bulk_path(categories, category, class_names, name)
  /\ UNCHANGED <<class_to_category, class_to_category_lower, nAdds, run, api, threads, heap, parser, raised>>

CallComputeDescendants(category, class_name) ==
  /\ categories' = compute_descendants_store(categories, category, class_name)
  /\ held' = returned_descendants(categories, category, class_name)
  /\ UNCHANGED <<class_to_category, class_to_category_lower, nAdds, run, api, threads, heap, parser, raised>>

CallGetChildren(category, class_name) ==
  /\ held' = returned_children(categories, category, class_name)
  /\ UNCHANGED <<manager, run, api, threads, heap, parser, raised>>

\* the snapshot of category with the object it keeps under aspect[name]
\* changed to value
WithObject(cats, category, aspect, name, value) ==
  LET cache == CatGet(cats, category)
  IN MapPut(cats, category,
       CategoryCache(cache.entries, cache.entries_lower,
                     IF aspect = "children"
                       THEN MapPut(cache.children, name, value) ELSE cache.children,
                     IF aspect = "descendants"
                       THEN MapPut(cache.descendants, name, value) ELSE cache.descendants,
                     IF aspect = "inheritance_paths"
                       THEN MapPut(cache.inheritance_paths, name, value)
                       ELSE cache.inheritance_paths,
                     cache.header))

\* the caller changes the object it holds: list.append(x) or set.add(x)
CallerMutates(x) ==
  /\ held.kind # "none" /\ ~held.mutated
  /\ held' = [held EXCEPT !.mutated = TRUE,
                          !.list = IF held.kind = "list" THEN Append(held.list, x) ELSE <<>>,
                          !.set = IF held.kind = "set" THEN held.set \cup {x} ELSE {}]
  /\ categories' =
       IF held.cached
       THEN WithObject(categories, held.category, held.aspect, held.name,
                       IF held.kind = "list" THEN held'.list ELSE held'.set)
       ELSE categories
  /\ UNCHANGED <<class_to_category, class_to_category_lower, nAdds, run, api, threads, heap, parser, raised>>

NextCaller ==
  \/ \E category \in Cats, class_name \in Names : CallGetInheritancePath(category, class_name)
  \/ \E category \in Cats, class_names \in SUBSET Names, name \in Names :
       CallGetInheritancePathsBulk(category, class_names, name)
  \/ \E category \in Cats, class_name \in Names : CallComputeDescendants(category, class_name)
  \/ \E category \in Cats, class_name \in Names : CallGetChildren(category, class_name)
  \/ \E x \in Names : CallerMutates(x)

\* a caller querying a loaded category and changing the objects it is handed
SpecCaller == InitLoaded /\ [][NextCaller]_vars

(* ------------------- CacheManager under threads ----------------------- *)
\* CacheManager holds no lock: a thread may be switched out between any two
\* statements of a call.  Each action below is a stretch of one call that
\* runs without a switch.
ThreadCalls(t) == Cardinality(threads[t].completed)

\* add_entry, lines 76-77: temp_entries is copied from the current snapshot
ThreadAddEntryReadsEntries(t, category, entry) ==
  /\ threads[t].pc = "idle" /\ ThreadCalls(t) < MaxThreadCalls
  /\ threads' = [threads EXCEPT ![t] =
       [@ EXCEPT !.pc = "add_entry_lower", !.category = category, !.entry = entry,
                 !.temp_entries = MapPut(CatGet(categories, category).entries,
                                         entry.class_name, entry)]]
  /\ UNCHANGED <<manager, run, api, held, heap, parser, raised>>

\* add_entry, lines 79-80: temp_entries_lower is copied from the current snapshot
ThreadAddEntryReadsLower(t) ==
  /\ threads[t].pc = "add_entry_lower"
  /\ LET th == threads[t]
     IN threads' = [threads EXCEPT ![t] =
          [th EXCEPT !.pc = "add_entry_publish",
                     !.temp_entries_lower =
                        MapPut(CatGet(categories, th.category).entries_lower,
                               Lower(th.entry.class_name), th.entry.class_name)]]
  /\ UNCHANGED <<manager, run, api, held, heap, parser, raised>>

\* add_entry, lines 82-91: children, descendants and inheritance_paths are
\* read from the current snapshot and the new snapshot is published
ThreadAddEntryPublishes(t) ==
  /\ threads[t].pc = "add_entry_publish"
  /\ LET th == threads[t]
         cur == CatGet(categories, th.category)
     IN /\ categories' = MapPut(categories, th.category,
             CategoryCache(th.temp_entries, th.temp_entries_lower, cur.children,
                           cur.descendants, cur.inheritance_paths, "None"))
        /\ class_to_category' = MapPut(class_to_category, th.entry.class_name, th.category)
        /\ class_to_category_lower' =
             MapPut(class_to_category_lower, Lower(th.entry.class_name), th.category)
        /\ threads' = [threads EXCEPT ![t] =
             [ThreadIdle EXCEPT !.completed =
                th.completed \cup {<<"add_entry", th.category, th.entry.class_name, "">>}]]
  /\ UNCHANGED <<nAdds, run, api, held, heap, parser, raised>>

\* add_child, line 152: current_cache is read
ThreadAddChildReads(t, category, parent, child) ==
  /\ threads[t].pc = "idle" /\ ThreadCalls(t) < MaxThreadCalls
  /\ threads' = [threads EXCEPT ![t] =
       [@ EXCEPT !.pc = "add_child_publish", !.category = category, !.parent = parent,
                 !.child = child, !.cache = CatGet(categories, category)]]
  /\ UNCHANGED <<manager, run, api, held, heap, parser, raised>>

\* add_child, lines 153-169: the new snapshot is built from current_cache and published
ThreadAddChildPublishes(t) ==
  /\ threads[t].pc = "add_child_publish"
  /\ LET th == threads[t]
     IN /\ categories' =
             MapPut(categories, th.category,
                    add_child(MapPut(categories, th.category, th.cache),
                              th.category, th.parent, th.child)[th.category])
        /\ threads' = [threads EXCEPT ![t] =
             [ThreadIdle EXCEPT !.completed =
                th.completed \cup {<<"add_child", th.category, th.parent, th.child>>}]]
  /\ UNCHANGED <<class_to_category, class_to_category_lower, nAdds, run, api, held, heap, parser, raised>>

\* get_inheritance_path, lines 247-255: cache is read; a name without a
\* record or with a memoized path returns at once
ThreadGetPathReads(t, category, class_name) ==
  /\ threads[t].pc = "idle" /\ ThreadCalls(t) < MaxThreadCalls
  /\ categories' = get_or_create_cache(categories, category)
  /\ LET cache == CatGet(categories, category)
     IN threads' = [threads EXCEPT ![t] =
          IF class_name \in DOMAIN cache.entries
             /\ class_name \notin DOMAIN cache.inheritance_paths
          THEN [@ EXCEPT !.pc = "path_publish", !.category = category,
                         !.class_name = class_name, !.cache = cache]
          ELSE [@ EXCEPT !.completed =
                  @ \cup {<<"get_inheritance_path", category, class_name, "hit">>}]]
  /\ UNCHANGED <<class_to_category, class_to_category_lower, nAdds, run, api, held, heap, parser, raised>>

\* get_inheritance_path, lines 259-286: the path is computed (get_entry reads
\* the current snapshot) and the new snapshot, built from cache, is published
ThreadGetPathPublishes(t) ==
  /\ threads[t].pc = "path_publish"
  /\ LET th == threads[t]
         path == compute_path(get_or_create_cache(categories, th.category),
                              th.category, th.class_name)
     IN /\ categories' = MapPut(categories, th.category,
             CategoryCache(th.cache.entries, th.cache.entries_lower, th.cache.children,
                           th.cache.descendants,
                           MapPut(th.cache.inheritance_paths, th.class_name, path),
                           "None"))
        /\ threads' = [threads EXCEPT ![t] =
             [ThreadIdle EXCEPT !.completed =
                th.completed \cup {<<"get_inheritance_path", th.category, th.class_name, "stored">>}]]
  /\ UNCHANGED <<class_to_category, class_to_category_lower, nAdds, run, api, held, heap, parser, raised>>

NextThreads ==
  \E t \in Threads :
    \/ \E category \in Cats, entry \in ConfigEntry : ThreadAddEntryReadsEntries(t, category, entry)
    \/ ThreadAddEntryReadsLower(t)
    \/ ThreadAddEntryPublishes(t)
    \/ \E category \in Cats, parent \in Names, child \in Names :
         ThreadAddChildReads(t, category, parent, child)
    \/ ThreadAddChildPublishes(t)
    \/ \E category \in Cats, class_name \in Names : ThreadGetPathReads(t, category, class_name)
    \/ ThreadGetPathPublishes(t)

\* threads sharing one CacheManager
SpecThreads == Init /\ [][NextThreads]_vars

(* --------------------- CategoryCache objects -------------------------- *)
\* identities for the objects alive at one time: one per category, the
\* reader's, and the one under construction
ObjectIds == 1..(Cardinality(Cats) + 2)

\* "self._categories[category] = CategoryCache(...)" overwriting the fields of
\* the object the category refers to
PublishInPlace(h, category, value) ==
  IF category \in DOMAIN h.at
  THEN [h EXCEPT !.objs = MapPut(@, h.at[category], value), !.made = @ + 1]
  ELSE LET id == CHOOSE i \in ObjectIds \ DOMAIN h.objs :
                   \A j \in ObjectIds \ DOMAIN h.objs : i <= j
       IN [h EXCEPT !.objs = MapPut(@, id, value), !.at = MapPut(@, category, id),
                    !.made = @ + 1]

\* "self._categories[category] = CategoryCache(...)": a new object is
\* constructed (__post_init__ copies the mappings it is given), the
\* category's reference is assigned to it, and the object it referred to is
\* released unless someone else holds it
Publish(h, category, value) ==
  LET id == CHOOSE i \in ObjectIds \ DOMAIN h.objs :
              \A j \in ObjectIds \ DOMAIN h.objs : i <= j
      at == MapPut(h.at, category, id)
      live == {at[c] : c \in DOMAIN at} \cup ({h.reader} \ {0})
      objs == MapPut(h.objs, id, value)
  IN [h EXCEPT !.objs = [i \in live |-> objs[i]], !.at = at, !.made = @ + 1]

\* the objects after an operation that took self._categories from before to
\* after: nothing is constructed when the operation returns early
Published(before, after, category) ==
  IF category \in DOMAIN after /\ (category \notin DOMAIN before
                                   \/ after[category] # before[category])
  THEN Publish(heap, category, after[category])
  ELSE heap

ObjStep(category, after) ==
  /\ heap.made < MaxObjects
  /\ categories' = after
  /\ heap' = Published(categories, after, category)
  /\ UNCHANGED <<class_to_category, class_to_category_lower, nAdds, run, api, held, threads, parser, raised>>

\* bulk_add_entries always constructs (create_bulk)
ObjBulkAdd(category, batch) ==
  /\ heap.made < MaxObjects
  /\ categories' = bulk_add_entries(categories, category, batch)
  /\ heap' = Publish(heap, category, categories'[category])
  /\ UNCHANGED <<class_to_category, class_to_category_lower, nAdds, run, api, held, threads, parser, raised>>

\* add_entry and add_child always construct
ObjAddEntry(category, entry) ==
  /\ heap.made < MaxObjects
  /\ categories' = add_entry(categories, category, entry)
  /\ heap' = Publish(heap, category, categories'[category])
  /\ UNCHANGED <<class_to_category, class_to_category_lower, nAdds, run, api, held, threads, parser, raised>>

ObjAddChild(category, parent, child) ==
  /\ heap.made < MaxObjects
  /\ categories' = add_child(categories, category, parent, child)
  /\ heap' = Publish(heap, category, categories'[category])
  /\ UNCHANGED <<class_to_category, class_to_category_lower, nAdds, run, api, held, threads, parser, raised>>

\* a reader takes the category's current snapshot (get_or_create_cache)
ReaderTakes(category) ==
  /\ category \in DOMAIN heap.at
  /\ heap.reader = 0
  /\ heap' = [heap EXCEPT !.reader = heap.at[category],
                          !.seen = heap.objs[heap.at[category]]]
  /\ UNCHANGED <<manager, run, api, held, threads, parser, raised>>

NextObjects ==
  \E category \in Cats :
    \/ \E batch \in Batches(MaxBatch) : ObjBulkAdd(category, batch)
    \/ \E entry \in ConfigEntry : ObjAddEntry(category, entry)
    \/ \E parent \in Names, child \in Names : ObjAddChild(category, parent, child)
    \/ \E class_name \in Names :
         ObjStep(category, get_inheritance_path_store(categories, category, class_name))
    \/ ObjStep(category, precompute_all_paths(categories, category))
    \/ \E class_names \in SUBSET Names :
         ObjStep(category, get_inheritance_paths_bulk_store(categories, category, class_names))
    \/ \E class_name \in Names :
         ObjStep(category, compute_descendants_store(categories, category, class_name))
    \/ ObjStep(category, compute_descendants_bulk(categories, category))
    \/ ReaderTakes(category)

\* the CategoryCache objects behind self._categories
SpecObjects == Init /\ [][NextObjects]_vars

(* --------------- CacheManager operations, loop by loop ---------------- *)
\* the category's snapshot as the operation in progress reads it now
RunCache == CatGet(categories, run.category)
PathOps == {"get_inheritance_path", "compute_descendants", "compute_descendants_bulk"}

RunBegin(op, category, arg, stage, todo, snapshot) ==
  [RunIdle EXCEPT !.op = op, !.category = category, !.arg = arg, !.stage = stage,
                  !.todo = todo, !.snapshot = snapshot, !.before = categories,
                  !.calls = run.calls + 1]
RunReturn == [RunIdle EXCEPT !.calls = run.calls + 1]

\* what the caller's loop does with the path of cls
\* (compute_descendants lines 188-189, compute_descendants_bulk lines 216-217)
RunTakePath(r, cls, path) ==
  IF r.op = "compute_descendants"
  THEN [r EXCEPT !.result = IF Contains(path, r.arg) THEN r.result \cup {cls} ELSE r.result]
  ELSE IF r.op = "compute_descendants_bulk"
  THEN [r EXCEPT !.descendants =
          IF path = <<>> THEN r.descendants
          ELSE MapUpdate(r.descendants,
                 [a \in Range(Tail(path)) |->
                    (IF a \in DOMAIN r.descendants THEN r.descendants[a] ELSE {}) \cup {cls}])]
  ELSE IF r.op = "precompute_all_paths" /\ r.stage = "paths"
  THEN [r EXCEPT !.new_paths = MapPut(r.new_paths, cls, path)]
  ELSE r

StartGetInheritancePath(category, class_name) ==
  /\ run.op = "idle" /\ run.calls < MaxCalls
  /\ categories' = get_or_create_cache(categories, category)
  /\ run' = IF class_name \notin DOMAIN CatGet(categories, category).entries
            THEN RunReturn
            ELSE RunBegin("get_inheritance_path", category, class_name, "",
                          {class_name}, EmptyCache)
  /\ UNCHANGED <<class_to_category, class_to_category_lower, nAdds, api, clients>>

StartComputeDescendants(category, class_name) ==
  /\ run.op = "idle" /\ run.calls < MaxCalls
  /\ categories' = get_or_create_cache(categories, category)
  /\ LET cache == CatGet(categories, category)
     IN run' = IF class_name \in DOMAIN cache.descendants
               THEN RunReturn
               ELSE RunBegin("compute_descendants", category, class_name, "",
                             DOMAIN cache.entries \ {class_name}, cache)
  /\ UNCHANGED <<class_to_category, class_to_category_lower, nAdds, api, clients>>

StartComputeDescendantsBulk(category) ==
  /\ run.op = "idle" /\ run.calls < MaxCalls
  /\ categories' = get_or_create_cache(categories, category)
  /\ LET cache == CatGet(categories, category)
     IN run' = RunBegin("compute_descendants_bulk", category, "", "",
                        DOMAIN cache.entries, cache)
  /\ UNCHANGED <<class_to_category, class_to_category_lower, nAdds, api, clients>>

StartPrecomputeAllPaths(category) ==
  /\ run.op = "idle" /\ run.calls < MaxCalls
  /\ categories' = get_or_create_cache(categories, category)
  /\ LET cache == CatGet(categories, category)
     IN run' = IF DOMAIN cache.entries = {}
               THEN RunReturn
               ELSE RunBegin("precompute_all_paths", category, "", "sort",
                             DOMAIN cache.entries, cache)
  /\ UNCHANGED <<class_to_category, class_to_category_lower, nAdds, api, clients>>

\* the for loop takes its next class (sets and dicts are iterated in no
\* particular order) and enters get_inheritance_path, or the walk, for it
RunNextClass ==
  /\ run.op # "idle" /\ run.loop = "none" /\ run.todo # {}
  /\ \E cls \in run.todo :
       LET r == [run EXCEPT !.todo = run.todo \ {cls}, !.cls = cls]
           enter(loop) == [r EXCEPT !.loop = loop, !.current = cls,
                                    !.path = <<>>, !.visited = {}]
       IN run' =
            IF run.op \in PathOps
            THEN IF cls \in DOMAIN RunCache.inheritance_paths
                 THEN RunTakePath(r, cls, RunCache.inheritance_paths[cls])
                 ELSE enter("detect")
            ELSE IF run.stage = "paths" /\ cls \in DOMAIN run.snapshot.inheritance_paths
                 THEN r
                 ELSE enter("walk")
  /\ UNCHANGED <<manager, api, clients>>

\* _detect_inheritance_cycle with visited.add(current) left out
RunDetectStepForgetsVisited ==
  /\ run.op # "idle" /\ run.loop = "detect"
  /\ Len(run.path) <= NumNames
  /\ LET entry == get_entry(categories, run.category, run.current)
         none == [run EXCEPT !.loop = "walk", !.current = run.cls,
                             !.path = <<>>, !.visited = {}]
     IN run' =
          IF run.current \in run.visited
          THEN IF Contains(run.path, run.current)
               THEN [run EXCEPT !.loop = "store",
                       !.path = SubSeq(run.path, IndexOf(run.path, run.current),
                                       Len(run.path))]
               ELSE none
          ELSE IF entry = NoneEntry \/ entry.inherits_from = ""
               THEN none
               ELSE [run EXCEPT !.current = entry.inherits_from,
                                !.path = Append(run.path, run.current)]
  /\ UNCHANGED <<manager, api, clients>>

\* one iteration of the while loop of _detect_inheritance_cycle; on return,
\* get_inheritance_path keeps the cycle or enters its own walk
RunDetectStep ==
  /\ run.op # "idle" /\ run.loop = "detect"
  /\ Len(run.path) <= NumNames
  /\ LET entry == get_entry(categories, run.category, run.current)
         none == [run EXCEPT !.loop = "walk", !.current = run.cls,
                             !.path = <<>>, !.visited = {}]
     IN run' =
          IF run.current \in run.visited
          THEN IF Contains(run.path, run.current)
               THEN [run EXCEPT !.loop = "store",
                       !.path = SubSeq(run.path, IndexOf(run.path, run.current),
                                       Len(run.path))]
               ELSE none
          ELSE IF entry = NoneEntry \/ entry.inherits_from = ""
               THEN none
               ELSE [run EXCEPT !.current = entry.inherits_from,
                                !.path = Append(run.path, run.current),
                                !.visited = run.visited \cup {run.current}]
  /\ UNCHANGED <<manager, api, clients>>

\* one iteration of the walk (get_inheritance_path lines 266-275,
\* precompute_all_paths lines 371-381, _get_raw_path lines 401-410)
RunWalkStep ==
  /\ run.op # "idle" /\ run.loop = "walk"
  /\ Len(run.path) <= NumNames
  /\ LET entries == IF run.op \in PathOps THEN RunCache.entries ELSE run.snapshot.entries
     IN run' =
          IF run.current \in run.visited \/ run.current \notin DOMAIN entries
          THEN [run EXCEPT !.loop = "store"]
          ELSE IF entries[run.current].inherits_from = ""
               THEN [run EXCEPT !.loop = "store", !.path = Append(run.path, run.current)]
               ELSE [run EXCEPT !.current = entries[run.current].inherits_from,
                                !.path = Append(run.path, run.current),
                                !.visited = run.visited \cup {run.current}]
  /\ UNCHANGED <<manager, api, clients>>

\* the path of run.cls is complete: get_inheritance_path memoizes and returns
\* it (lines 278-286); the caller's loop body uses it
RunStore ==
  /\ run.op # "idle" /\ run.loop = "store"
  /\ categories' =
       IF run.op \in PathOps
       THEN MapPut(categories, run.category,
              CategoryCache(RunCache.entries, RunCache.entries_lower, RunCache.children,
                            RunCache.descendants,
                            MapPut(RunCache.inheritance_paths, run.cls, run.path),
                            "None"))
       ELSE categories
  /\ run' = [RunTakePath(run, run.cls, run.path) EXCEPT !.loop = "none"]
  /\ UNCHANGED <<class_to_category, class_to_category_lower, nAdds, api, clients>>

\* precompute_all_paths: classes.sort(...) is over, the main loop begins
RunSorted ==
  /\ run.op = "precompute_all_paths" /\ run.stage = "sort"
  /\ run.loop = "none" /\ run.todo = {}
  /\ run' = [run EXCEPT !.stage = "paths", !.todo = DOMAIN run.snapshot.entries]
  /\ UNCHANGED <<manager, api, clients>>

\* the loops are over: the operation publishes its result and returns
RunFinish ==
  /\ run.op # "idle" /\ run.loop = "none" /\ run.todo = {} /\ run.stage # "sort"
  /\ categories' =
       IF run.op = "compute_descendants"
       THEN MapPut(categories, run.category,
              CategoryCache(run.snapshot.entries, run.snapshot.entries_lower,
                            run.snapshot.children,
                            MapPut(run.snapshot.descendants, run.arg, run.result),
                            run.snapshot.inheritance_paths, "None"))
       ELSE IF run.op = "compute_descendants_bulk"
       THEN update_cache(categories, run.category, "descendants", run.descendants)
       ELSE IF run.op = "precompute_all_paths" /\ DOMAIN run.new_paths # {}
       THEN update_cache(categories, run.category, "inheritance_paths", run.new_paths)
       ELSE categories
  /\ run' = [RunIdle EXCEPT !.calls = run.calls]
  /\ UNCHANGED <<class_to_category, class_to_category_lower, nAdds, api, clients>>

RunStep ==
  \/ RunNextClass
  \/ RunDetectStep
  \/ RunWalkStep
  \/ RunStore
  \/ RunSorted
  \/ RunFinish

NextSteps ==
  \/ \E category \in Cats, class_name \in Names : StartGetInheritancePath(category, class_name)
  \/ \E category \in Cats, class_name \in Names : StartComputeDescendants(category, class_name)
  \/ \E category \in Cats : StartComputeDescendantsBulk(category)
  \/ \E category \in Cats : StartPrecomputeAllPaths(category)
  \/ RunStep

\* operations on a loaded category followed loop by loop; an operation that
\* has been called keeps running (nothing in it waits)
SpecSteps == InitLoaded /\ [][NextSteps]_vars /\ WF_vars(RunStep)

\* the effect on self._categories of the operation in progress, from the
\* operators above
RunEffect ==
  IF run.op = "get_inheritance_path"
  THEN get_inheritance_path_store(run.before, run.category, run.arg)
  ELSE IF run.op = "compute_descendants"
  THEN compute_descendants_store(run.before, run.category, run.arg)
  ELSE IF run.op = "compute_descendants_bulk"
  THEN compute_descendants_bulk(run.before, run.category)
  ELSE precompute_all_paths(run.before, run.category)

\* the loop-by-loop operations and the operators compute the same: each path
\* handed back by get_inheritance_path, each set returned by
\* compute_descendants, and the snapshot left behind by each operation
StepsAgreeWithOperators ==
  [][/\ (run.op \in PathOps /\ run.loop = "store")
          => run.path = get_inheritance_path(categories, run.category, run.cls)
     /\ (run.op # "idle" /\ run'.op = "idle")
          => /\ categories' = RunEffect
             /\ run.op = "compute_descendants"
                  => run.result = compute_descendants(run.before, run.category, run.arg)]_vars

(* ------------------------- ClassHierarchyAPI -------------------------- *)
\* INIClassParser.get_all_classes: class name -> ClassInfo.inherits_from
parser_get_all_classes(cats, category) ==
  LET entries == CatGet(cats, category).entries
  IN [n \in DOMAIN entries |-> entries[n].inherits_from]

\* ClassHierarchyAPI.get_all_classes: self._cache after the call
api_get_all_classes(cache, cats, category) ==
  IF category \in DOMAIN cache THEN cache
  ELSE MapPut(cache, category, parser_get_all_classes(cats, category))

\* the keys of self._cache in insertion order, after category has been cached
ApiOrder(a, category) ==
  IF category \in DOMAIN a.cache THEN a.order ELSE Append(a.order, category)

\* the list grows without limit in the code; its first MaxApiPath elements are
\* kept in api.path, and the parity of its length in api.parity
ApiAppend(path, x) == IF Len(path) < MaxApiPath THEN Append(path, x) ELSE path

\* ClassHierarchyAPI.get_inheritance_path up to its loop
ApiGetInheritancePath(category, class_name) ==
  /\ api.pc = "idle"
  /\ LET cache == api_get_all_classes(api.cache, categories, category)
         classes == cache[category]
     IN api' = IF class_name \notin DOMAIN classes
               THEN [api EXCEPT !.cache = cache, !.category = category,
                                !.order = ApiOrder(api, category),
                                !.pc = "done", !.path = <<>>, !.current = "",
                                !.parity = 0]
               ELSE [api EXCEPT !.cache = cache, !.category = category,
                                !.order = ApiOrder(api, category),
                                !.pc = "walk", !.path = <<class_name>>,
                                !.current = class_name, !.parity = 1]
  \* get_category_entries reads the category through get_or_create_cache
  /\ categories' = IF category \in DOMAIN api.cache THEN categories
                   ELSE get_or_create_cache(categories, category)
  /\ UNCHANGED <<class_to_category, class_to_category_lower, nAdds, run, clients>>

\* one test of "while current.inherits_from:" and, when it holds, the body
ApiWalkStep ==
  /\ api.pc = "walk"
  /\ LET classes == api.cache[api.category]
         inherits_from == classes[api.current]
     IN api' = IF inherits_from = ""
               THEN [api EXCEPT !.pc = "done"]
               ELSE IF inherits_from \notin DOMAIN classes
               \* classes[current.inherits_from] raises KeyError
               THEN [api EXCEPT !.pc = "raised", !.path = ApiAppend(api.path, inherits_from),
                                !.parity = 1 - api.parity]
               ELSE [api EXCEPT !.path = ApiAppend(api.path, inherits_from),
                                !.current = inherits_from, !.parity = 1 - api.parity]
  /\ UNCHANGED <<manager, run, clients>>

\* the call is over (a list returned, or KeyError propagated to the caller)
ApiReturn ==
  /\ api.pc \in {"done", "raised"}
  /\ api' = [api EXCEPT !.pc = "idle", !.path = <<>>, !.current = "", !.category = "",
                        !.parity = 0, !.op = "", !.args = <<>>, !.answer = ""]
  /\ UNCHANGED <<manager, run, clients>>

NextApi ==
  \/ \E category \in Cats, class_name \in Names : ApiGetInheritancePath(category, class_name)
  \/ ApiWalkStep
  \/ ApiReturn

\* the facade over a loaded parser; a started loop iteration is always executed
SpecApi == InitLoaded /\ [][NextApi]_vars /\ WF_vars(ApiWalkStep)

(* ------------------- CacheManager with two categories ------------------ *)
\* the CategoryData_ sections of a file with two of them, in file order
Sections == <<"CategoryData_CfgVehicles", "CategoryData_CfgWeapons">>
AllCategories == Range(Sections)

QueryNames == {NameSeq[i] : i \in 1..MaxQueryNames}

\* the CacheManager operation of this step was issued for category
IssuedFor(category) ==
  \/ \E batch \in Batches(MaxCategoryBatch) : BulkAdd(category, batch)
  \/ \E entry \in ConfigEntry : AddEntry(category, entry)
  \/ \E parent \in Names, child \in Names : AddChild(category, parent, child)
  \/ \E class_name \in QueryNames : GetInheritancePath(category, class_name)
  \/ \E class_names \in SUBSET QueryNames : GetInheritancePathsBulk(category, class_names)
  \/ PrecomputeAllPaths(category)
  \/ \E class_name \in QueryNames : ComputeDescendants(category, class_name)
  \/ ComputeDescendantsBulk(category)

NextCategories == \E category \in AllCategories : IssuedFor(category)

\* every CacheManager operation, on either of two categories
SpecCategories == Init /\ [][NextCategories]_vars

(* --------------- ClassHierarchyAPI: lookups and relations --------------- *)
\* the names in play in the order sorted() gives them (upper case first)
SortedNames == <<"A", "B", "C", "a">>

\* {name.lower(): name for name in classes}; classes is filled in the order of
\* sorted(entries, key=class_name), so the greatest name wins an alias
case_map_of(classes) ==
  [l \in {Lower(n) : n \in DOMAIN classes} |->
     CHOOSE n \in DOMAIN classes :
       /\ Lower(n) = l
       /\ \A m \in DOMAIN classes :
            Lower(m) = l => IndexOf(SortedNames, m) <= IndexOf(SortedNames, n)]

\* the facade after get_all_classes(category)
api_with_classes(a, cats, category) ==
  [a EXCEPT !.cache = api_get_all_classes(a.cache, cats, category),
            !.order = ApiOrder(a, category)]

\* the facade after _get_case_map(category)
api_with_case_map(a, cats, category) ==
  IF category \in DOMAIN a.case_map THEN a
  ELSE LET a1 == api_with_classes(a, cats, category)
       IN [a1 EXCEPT !.case_map = MapPut(a1.case_map, category,
                                         case_map_of(a1.cache[category]))]

\* ClassHierarchyAPI.get_class: the ClassInfo returned (NoneEntry for None)
api_get_class(a, cats, category, class_name, case_sensitive) ==
  LET case_map == api_with_case_map(a, cats, category).case_map[category]
      name == IF ~case_sensitive /\ Lower(class_name) \in DOMAIN case_map
              THEN case_map[Lower(class_name)] ELSE class_name
  IN get_entry(cats, category, name)

\* ClassHierarchyAPI.has_class: the boolean returned
api_has_class(a, cats, category, class_name, case_sensitive) ==
  LET a1 == api_with_classes(a, cats, category)
  IN IF case_sensitive THEN class_name \in DOMAIN a1.cache[category]
     ELSE Lower(class_name) \in DOMAIN api_with_case_map(a1, cats, category).case_map[category]

\* the while loop of ClassHierarchyAPI.get_inheritance_path, run to its end:
\* "done" with the list, "raised" when classes[current.inherits_from] raises
\* KeyError, "walk" when the loop never ends.  Every element of path has a
\* record, so once path is as long as classes a further resolved parent
\* repeats a class and the loop is on a cycle.
RECURSIVE api_walk(_, _, _)
api_walk(classes, current, path) ==
  LET inherits_from == classes[current]
  IN IF inherits_from = "" THEN [pc |-> "done", path |-> path]
     ELSE IF inherits_from \notin DOMAIN classes
          THEN [pc |-> "raised", path |-> Append(path, inherits_from)]
          ELSE IF Len(path) >= Cardinality(DOMAIN classes)
               THEN [pc |-> "walk", path |-> path]
               ELSE api_walk(classes, inherits_from, Append(path, inherits_from))

\* ClassHierarchyAPI.get_inheritance_path as one call
api_get_inheritance_path(classes, class_name) ==
  IF class_name \notin DOMAIN classes THEN [pc |-> "done", path |-> <<>>]
  ELSE api_walk(classes, class_name, <<class_name>>)

\* ClassHierarchyAPI.find_common_ancestor: how the call ends, and its value
api_find_common_ancestor(classes, class1, class2) ==
  LET path1 == api_get_inheritance_path(classes, class1)
      path2 == api_get_inheritance_path(classes, class2)
  IN IF path1.pc # "done" THEN [pc |-> path1.pc, answer |-> "None"]
     ELSE IF path2.pc # "done" THEN [pc |-> path2.pc, answer |-> "None"]
     ELSE LET shared == {i \in 1..Len(path1.path) : Contains(path2.path, path1.path[i])}
          IN [pc |-> "done",
              answer |-> IF shared = {} THEN "None"
                         ELSE path1.path[CHOOSE i \in shared : \A j \in shared : i <= j]]

\* ClassHierarchyAPI.is_descendant_of: how the call ends, and its value
api_is_descendant_of(classes, child, ancestor) ==
  LET path == api_get_inheritance_path(classes, child)
  IN IF path.pc # "done" THEN [pc |-> path.pc, answer |-> FALSE]
     ELSE [pc |-> "done",
           answer |-> path.path # <<>> /\ Contains(Tail(path.path), ancestor)]

\* a facade call made while no other is in progress: a1 is the facade with
\* the categories the call has cached; get_category_entries has read each of
\* them through get_or_create_cache
ApiCall(a1, op, args, pc, answer) ==
  /\ api.pc = "idle"
  /\ api' = [a1 EXCEPT !.pc = pc, !.op = op, !.args = args, !.answer = answer]
  /\ categories' = [c \in DOMAIN categories \cup DOMAIN a1.cache |-> CatGet(categories, c)]
  /\ UNCHANGED <<class_to_category, class_to_category_lower, nAdds, run, clients>>

ApiGetClass(category, class_name, case_sensitive) ==
  ApiCall(IF case_sensitive THEN api ELSE api_with_case_map(api, categories, category),
          "get_class", <<category, class_name, case_sensitive>>, "done",
          api_get_class(api, categories, category, class_name, case_sensitive))

ApiHasClass(category, class_name, case_sensitive) ==
  ApiCall(IF case_sensitive THEN api_with_classes(api, categories, category)
          ELSE api_with_case_map(api, categories, category),
          "has_class", <<category, class_name, case_sensitive>>, "done",
          api_has_class(api, categories, category, class_name, case_sensitive))

ApiFindCommonAncestor(category, class1, class2) ==
  LET a1 == api_with_classes(api, categories, category)
      r == api_find_common_ancestor(a1.cache[category], class1, class2)
  IN ApiCall(a1, "find_common_ancestor", <<category, class1, class2>>, r.pc, r.answer)

ApiIsDescendantOf(category, child, ancestor) ==
  LET a1 == api_with_classes(api, categories, category)
      r == api_is_descendant_of(a1.cache[category], child, ancestor)
  IN ApiCall(a1, "is_descendant_of", <<category, child, ancestor>>, r.pc, r.answer)

NextFacade ==
  \/ \E category \in Cats, class_name \in Names, case_sensitive \in BOOLEAN :
       ApiGetClass(category, class_name, case_sensitive)
  \/ \E category \in Cats, class_name \in Names, case_sensitive \in BOOLEAN :
       ApiHasClass(category, class_name, case_sensitive)
  \/ \E category \in Cats, class1 \in Names, class2 \in Names :
       ApiFindCommonAncestor(category, class1, class2)
  \/ \E category \in Cats, child \in Names, ancestor \in Names :
       ApiIsDescendantOf(category, child, ancestor)
  \/ ApiReturn

\* the facade's lookups and relations over a loaded parser, one call at a time
SpecFacade == InitLoaded /\ [][NextFacade]_vars

(* ------------- ClassHierarchyAPI over a file of two sections ----------- *)
\* INIClassParser._parse_file on a file with two CategoryData_ sections: each
\* section that has well-formed rows is loaded by one bulk_add_entries
InitParsed ==
  \E batch1 \in Batches(MaxCategoryBatch), batch2 \in Batches(MaxCategoryBatch) :
    LET load(cats, i, batch) ==
          IF batch = <<>> THEN cats ELSE bulk_add_entries(cats, Sections[i], batch)
        index(m, i, batch, key(_)) ==
          MapUpdate(m, [k \in {key(n) : n \in DOMAIN entries_dict(batch)} |-> Sections[i]])
        same(n) == n
    IN /\ categories = load(load(EmptyMap, 1, batch1), 2, batch2)
       /\ class_to_category = index(index(EmptyMap, 1, batch1, same), 2, batch2, same)
       /\ class_to_category_lower = index(index(EmptyMap, 1, batch1, Lower), 2, batch2, Lower)
       /\ nAdds = 0
       /\ run = RunIdle
       /\ api = ApiIdle
       /\ held = NoObject
       /\ threads = [t \in Threads |-> ThreadIdle]
       /\ heap = EmptyHeap
       /\ parser = NoFile
       /\ raised = ""

\* find_class_category looking only at the categories already cached
api_find_class_category_cached_only(a, cats, class_name, case_sensitive) ==
  LET hits == {i \in 1..Len(a.order) :
                 IF case_sensitive THEN class_name \in DOMAIN a.cache[a.order[i]]
                 ELSE \E m \in DOMAIN a.cache[a.order[i]] : Lower(m) = Lower(class_name)}
  IN [a |-> a,
      answer |-> IF hits = {} THEN "None"
                 ELSE a.order[CHOOSE i \in hits : \A j \in hits : i <= j]]

\* find_class_category, first loop: the categories of self._cache in the
\* order they were cached
RECURSIVE find_in_cached(_, _, _, _, _)
find_in_cached(a, cats, order, class_name, case_sensitive) ==
  IF order = <<>> THEN [a |-> a, answer |-> "None"]
  ELSE LET category == Head(order)
       IN IF case_sensitive
          THEN IF class_name \in DOMAIN a.cache[category]
               THEN [a |-> a, answer |-> category]
               ELSE find_in_cached(a, cats, Tail(order), class_name, case_sensitive)
          ELSE LET a1 == api_with_case_map(a, cats, category)
               IN IF Lower(class_name) \in DOMAIN a1.case_map[category]
                  THEN [a |-> a1, answer |-> category]
                  ELSE find_in_cached(a1, cats, Tail(order), class_name, case_sensitive)

\* find_class_category, second loop: the sections of the file that are not
\* cached yet, each asked through has_class (which caches it)
RECURSIVE find_in_remaining(_, _, _, _, _)
find_in_remaining(a, cats, sections, class_name, case_sensitive) ==
  IF sections = <<>> THEN [a |-> a, answer |-> "None"]
  ELSE LET category == Head(sections)
       IN IF category \in DOMAIN a.cache
          THEN find_in_remaining(a, cats, Tail(sections), class_name, case_sensitive)
          ELSE LET a1 == IF case_sensitive THEN api_with_classes(a, cats, category)
                         ELSE api_with_case_map(a, cats, category)
               IN IF api_has_class(a, cats, category, class_name, case_sensitive)
                  THEN [a |-> a1, answer |-> category]
                  ELSE find_in_remaining(a1, cats, Tail(sections), class_name,
                                         case_sensitive)

\* ClassHierarchyAPI.find_class_category: the facade after the call and the
\* category returned ("None" for None)
api_find_class_category(a, cats, class_name, case_sensitive) ==
  LET cached == find_in_cached(a, cats, a.order, class_name, case_sensitive)
  IN IF cached.answer # "None" THEN cached
     ELSE find_in_remaining(cached.a, cats, Sections, class_name, case_sensitive)

ApiFindClassCategory(class_name, case_sensitive) ==
  LET r == api_find_class_category(api, categories, class_name, case_sensitive)
  IN ApiCall(r.a, "find_class_category", <<class_name, case_sensitive>>, "done", r.answer)

NextFinder ==
  \/ \E category \in AllCategories, class_name \in Names, case_sensitive \in BOOLEAN :
       ApiHasClass(category, class_name, case_sensitive)
  \/ \E class_name \in Names, case_sensitive \in BOOLEAN :
       ApiFindClassCategory(class_name, case_sensitive)
  \/ ApiReturn

\* the facade over a file of two sections: has_class and find_class_category
SpecFinder == InitParsed /\ [][NextFinder]_vars

(* ------------------ INIClassParser: reading the file ------------------- *)
\* the characters a NumProperties field is written with: a digit, a letter
\* and the percent sign
Digits == {"1"}
Chars == Digits \cup {"x", "%"}
Tokens == UNION {[1..k -> Chars] : k \in 1..MaxTokenLen}
\* len(row) of a row as csv.reader splits it
FieldCounts == {8, 9, 10}
\* a numbered row of a CategoryData_ section as it is written in the file
Rows == [class_name : Names, inherits_from : Parents, fields : FieldCounts,
         num_properties : Tokens]

\* self.config[section][key]: ConfigParser() interpolates the value on access;
\* "%%" stands for a percent sign, any other "%" raises InterpolationSyntaxError
\* (the model writes no "%(")
RECURSIVE interpolate(_)
interpolate(text) ==
  IF text = <<>> THEN [raised |-> FALSE, text |-> <<>>]
  ELSE IF Head(text) = "%"
       THEN IF Len(text) >= 2 /\ text[2] = "%"
            THEN LET rest == interpolate(SubSeq(text, 3, Len(text)))
                 IN [raised |-> rest.raised, text |-> <<"%">> \o rest.text]
            ELSE [raised |-> TRUE, text |-> <<>>]
       ELSE LET rest == interpolate(Tail(text))
            IN [raised |-> rest.raised, text |-> <<Head(text)>> \o rest.text]

\* int(text) returns (it raises ValueError otherwise)
int_parses(text) == text # <<>> /\ \A i \in 1..Len(text) : text[i] \in Digits

\* ConfigEntry.from_csv: the entry, or MalformedEntryError raised
from_csv(row) ==
  IF row.fields # 9 THEN [raised |-> TRUE, entry |-> NoneEntry]
  ELSE IF ~int_parses(row.num_properties) THEN [raised |-> TRUE, entry |-> NoneEntry]
  ELSE [raised |-> FALSE,
        entry |-> [class_name |-> row.class_name, inherits_from |-> row.inherits_from]]

\* the loop over the numbered rows of a section (_parse_file, lines 49-64, and
\* get_category_entries, lines 118-131): the entries collected, or the
\* exception that is not caught there
RECURSIVE read_rows(_, _)
read_rows(rows, entries) ==
  IF rows = <<>> THEN [status |-> "loaded", entries |-> entries]
  ELSE LET value == interpolate(Head(rows).num_properties)
       IN IF value.raised
          THEN [status |-> "InterpolationSyntaxError", entries |-> entries]
          ELSE LET parsed == from_csv([Head(rows) EXCEPT !.num_properties = value.text])
               IN read_rows(Tail(rows),
                            IF parsed.raised THEN entries ELSE Append(entries, parsed.entry))

\* get_category_entries, lines 134-138: add_entry, and add_child for a record
\* that names a parent, for each entry in turn
RECURSIVE add_records(_, _, _)
add_records(cats, category, entries) ==
  IF entries = <<>> THEN cats
  ELSE LET entry == Head(entries)
           cats1 == add_entry(cats, category, entry)
       IN add_records(IF entry.inherits_from # ""
                      THEN add_child(cats1, category, entry.inherits_from, entry.class_name)
                      ELSE cats1,
                      category, Tail(entries))

\* a file with one CategoryData_ section, before INIClassParser(file_path)
InitFile ==
  /\ categories = EmptyMap
  /\ class_to_category = EmptyMap
  /\ class_to_category_lower = EmptyMap
  /\ nAdds = 0
  /\ run = RunIdle
  /\ api = ApiIdle
  /\ held = NoObject
  /\ threads = [t \in Threads |-> ThreadIdle]
  /\ heap = EmptyHeap
  /\ raised = ""
  /\ \E rows \in UNION {[1..k -> Rows] : k \in 0..MaxRows} :
       parser = [rows |-> rows, status |-> "unread"]

\* INIClassParser.__init__: _parse_file over the section (a section of at most
\* MaxRows rows stays below the 100 entries that trigger precompute_all_paths)
ParseFile ==
  /\ parser.status = "unread"
  /\ LET category == Sections[1]
         read == read_rows(parser.rows, <<>>)
         names == DOMAIN entries_dict(read.entries)
     IN /\ parser' = [parser EXCEPT !.status = read.status]
        /\ IF read.status = "loaded" /\ read.entries # <<>>
           THEN /\ categories' = bulk_add_entries(categories, category, read.entries)
                /\ class_to_category' =
                     MapUpdate(class_to_category, [n \in names |-> category])
                /\ class_to_category_lower' =
                     MapUpdate(class_to_category_lower,
                               [l \in {Lower(n) : n \in names} |-> category])
           ELSE UNCHANGED <<categories, class_to_category, class_to_category_lower>>
  /\ UNCHANGED <<nAdds, run, api, held, threads, heap, raised>>

\* INIClassParser.get_category_entries on the constructed parser
ParserGetCategoryEntries ==
  /\ parser.status = "loaded"
  /\ LET category == Sections[1]
         cats1 == get_or_create_cache(categories, category)
         read == read_rows(parser.rows, <<>>)
         names == DOMAIN entries_dict(read.entries)
     IN IF DOMAIN cats1[category].entries # {}
        THEN /\ categories' = cats1
             /\ UNCHANGED <<class_to_category, class_to_category_lower>>
        ELSE /\ categories' = add_records(cats1, category, read.entries)
             /\ class_to_category' =
                  MapUpdate(class_to_category, [n \in names |-> category])
             /\ class_to_category_lower' =
                  MapUpdate(class_to_category_lower,
                            [l \in {Lower(n) : n \in names} |-> category])
  /\ UNCHANGED <<nAdds, run, api, clients>>

NextLoad == ParseFile \/ ParserGetCategoryEntries

\* building a parser from a file, then asking for the section's entries
SpecLoad == InitFile /\ [][NextLoad]_vars

(* ======================= properties of the claims ====================== *)
EntriesOf(category) == CatGet(categories, category).entries
PathMemo(category) == CatGet(categories, category).inheritance_paths
InheritsFrom(category, n) == EntriesOf(category)[n].inherits_from
Resolves(category, n) == n # "" /\ n \in DOMAIN EntriesOf(category)
\* a record whose inherits_from names a class without a record
Dangling(category, n) ==
  /\ n \in DOMAIN EntriesOf(category)
  /\ InheritsFrom(category, n) # ""
  /\ InheritsFrom(category, n) \notin DOMAIN EntriesOf(category)

\* the class k pointers up from n ("" once the chain has ended)
RECURSIVE Up(_, _, _)
Up(category, n, k) ==
  IF k = 0 THEN n
  ELSE LET m == Up(category, n, k - 1)
       IN IF Resolves(category, m) THEN InheritsFrom(category, m) ELSE ""
\* the chain from n comes back to a class it has passed
ReachesCycle(category, n) ==
  \E k \in 0..NumNames, j \in 1..NumNames :
    Resolves(category, Up(category, n, k)) /\ Up(category, n, k + j) = Up(category, n, k)

\* p is the inheritance path of X as the data model defines it
IsPathOf(p, category, X) ==
  /\ Len(p) >= 1
  /\ p[1] = X
  /\ \A i \in 1..Len(p) : p[i] \in DOMAIN EntriesOf(category)
  /\ \A i \in 1..(Len(p) - 1) : p[i + 1] = InheritsFrom(category, p[i])
  /\ \A i, j \in 1..Len(p) : i # j => p[i] # p[j]
  /\ LET next == InheritsFrom(category, p[Len(p)])
     IN next = "" \/ next \notin DOMAIN EntriesOf(category) \/ next \in Range(p)

\* C2: for every class X of a category, get_inheritance_path returns a
\* sequence that begins with X, continues with the inherits_from of each
\* element, and ends at a root, an unresolved name or a repeated name.
C2_PathBeginsAtClassAndFollowsPointers ==
  \A category \in Cats : \A X \in DOMAIN EntriesOf(category) :
    IsPathOf(get_inheritance_path(categories, category, X), category, X)

ApiClasses == api.cache[api.category]
\* following inherits_from from n in the facade's classes never ends
RECURSIVE ApiUp(_, _)
ApiUp(n, k) ==
  IF k = 0 THEN n
  ELSE LET m == ApiUp(n, k - 1)
       IN IF m # "" /\ m \in DOMAIN ApiClasses THEN ApiClasses[m] ELSE ""
ApiChainCyclic(n) ==
  \E j \in 1..NumNames : ApiUp(n, j) = n \/ \E k \in 1..NumNames : ApiUp(n, k) # "" /\ ApiUp(n, k + j) = ApiUp(n, k)

\* C3: a call of ClassHierarchyAPI.get_inheritance_path on a class whose chain
\* runs into a cycle returns.
C3_ApiPathReturnsOnCycle ==
  (api.pc = "walk" /\ ApiChainCyclic(api.current)) ~> (api.pc = "done")

\* C4: ClassHierarchyAPI.get_inheritance_path never raises; a chain that
\* reaches a name without a record just ends.
C4_ApiPathNeverRaises == api.pc # "raised"

\* C1: every CacheManager operation that resolves paths returns, on every
\* hierarchy (cycles and chains into cycles included); no loop runs longer
\* than the number of classes; every path get_inheritance_path hands back for
\* a class of the category is non-empty.
C1_OperationsTerminate ==
  /\ (run.op # "idle") ~> (run.op = "idle")
  /\ [](Len(run.path) <= NumNames)
  /\ [](run.op \in PathOps /\ run.loop = "store" => Len(run.path) >= 1)

\* C1 witness: a path has been completed for a class whose chain runs into a
\* cycle it is not on
C1_Witness ==
  /\ run.op \in PathOps /\ run.loop = "store"
  /\ ReachesCycle(run.category, run.cls)
  /\ \A k \in 1..NumNames : Up(run.category, run.cls, k) # run.cls

DescendantsMemo(category) == CatGet(categories, category).descendants

C8_ReaddInvalidatesMemoizedPaths ==
  [][\A category \in Cats : \A R \in DOMAIN EntriesOf(category) :
       LET after == CatGet(categories', category).entries
       IN (R \in DOMAIN after /\ after[R].inherits_from # InheritsFrom(category, R))
          => \A X \in DOMAIN PathMemo(category) :
               (/\ Contains(PathMemo(category)[X], R)
                /\ X \in DOMAIN after
                /\ ~ReachesCycle(category, X)')
               => LET r == get_inheritance_path(categories', category, X)
                      i == IndexOf(r, R)
                      P == after[R].inherits_from
                  IN Contains(r, R)
                     => IF P \in DOMAIN after
                        THEN i < Len(r) /\ r[i + 1] = P
                        ELSE i = Len(r)]_vars

\* C9: once compute_descendants(P) has been called for a class P, a record C
\* added afterwards with inherits_from = P (and a chain that reaches no cycle)
\* is in what compute_descendants(P) returns next.
C9_DescendantsReflectLaterAdd ==
  [][\A category \in Cats : \A P \in DOMAIN DescendantsMemo(category) :
       \A C \in Names \ DOMAIN EntriesOf(category) :
         LET after == CatGet(categories', category).entries
         IN (/\ P \in DOMAIN EntriesOf(category) /\ P \in DOMAIN after
             /\ C \in DOMAIN after /\ after[C].inherits_from = P
             /\ ~ReachesCycle(category, C)')
            => C \in compute_descendants(categories', category, P)]_vars

ChildrenOf(category) == CatGet(categories, category).children
\* entries_lower.get(n.lower()) in the snapshot of category held by cats
AliasOf(cats, category, n) ==
  IF Lower(n) \in DOMAIN CatGet(cats, category).entries_lower
  THEN CatGet(cats, category).entries_lower[Lower(n)] ELSE ""
\* entries.get(n) in the snapshot of category held by cats
RecordOf(cats, category, n) ==
  IF n \in DOMAIN CatGet(cats, category).entries
  THEN CatGet(cats, category).entries[n] ELSE NoneEntry

\* C11 as stated: immediately after add_entry(category, r) with a non-empty
\* r.inherits_from, get_children(category, r.inherits_from) contains
\* r.class_name.
C11_AddEntryUpdatesChildren ==
  [][\A category \in Cats : \A r \in ConfigEntry :
       (AddEntry(category, r) /\ r.inherits_from # "")
         => r.class_name \in get_children(categories', category, r.inherits_from)]_vars

\* C11 amended: add_entry stores the record and its lowercase alias and leaves
\* the children adjacency as it was; the edge is there after the add_child
\* that the parser issues next for a record with a non-empty inherits_from.
C11_AddEntryThenAddChildUpdatesChildren ==
  [][\A category \in Cats : \A r \in ConfigEntry :
       /\ AddEntry(category, r)
            => /\ RecordOf(categories', category, r.class_name) = r
               /\ AliasOf(categories', category, r.class_name) = r.class_name
               /\ CatGet(categories', category).children = ChildrenOf(category)
       /\ (AddRecord(category, r) /\ r.inherits_from # "")
            => /\ RecordOf(categories', category, r.class_name) = r
               /\ AliasOf(categories', category, r.class_name) = r.class_name
               /\ r.class_name \in get_children(categories', category, r.inherits_from)]_vars

\* C11 witness: a third record has been added to a loaded category by
\* add_entry and add_child, and every record is a child of the class it names
C11_Witness ==
  \E category \in Cats :
    /\ Cardinality(DOMAIN EntriesOf(category)) = 3
    /\ \A c \in DOMAIN EntriesOf(category) :
         /\ InheritsFrom(category, c) # ""
         /\ c \in get_children(categories, category, InheritsFrom(category, c))
         /\ AliasOf(categories, category, c) \in DOMAIN EntriesOf(category)

\* no record of the category is on a cycle or leads into one
Acyclic(category) == \A n \in DOMAIN EntriesOf(category) : ~ReachesCycle(category, n)

\* what the formula of the data model gives for X: the children of X, each
\* with the descendants returned for it by a call that follows the call for X
ChildrenClosure(category, X) ==
  LET after == compute_descendants_store(categories, category, X)
  IN UNION {{c} \cup compute_descendants(after, category, c) :
              c \in get_children(after, category, X)}

C14_ClassNotInOwnDescendants ==
  \A category \in Cats : \A X \in Names :
    /\ X \notin compute_descendants(categories, category, X)
    /\ X \in DOMAIN DescendantsMemo(category) => X \notin DescendantsMemo(category)[X]
    /\ LET stored == CatGet(compute_descendants_bulk(categories, category), category).descendants
       IN X \in DOMAIN stored => X \notin stored[X]

\* C14 witness: compute_descendants_bulk has stored a non-empty descendant
\* set for a class that is on a cycle
C14_Witness ==
  \E category \in Cats : \E X \in DOMAIN DescendantsMemo(category) :
    /\ X \in DOMAIN EntriesOf(category)
    /\ \E k \in 1..NumNames : Up(category, X, k) = X
    /\ DescendantsMemo(category)[X] # {}
    /\ DOMAIN PathMemo(category) = DOMAIN EntriesOf(category)

\* C15: at every point of any sequence of index operations, the path
\* returned for a class whose current record has an empty inherits_from is
\* the class alone.
C15_RootPathIsSingleton ==
  \A category \in Cats : \A X \in DOMAIN EntriesOf(category) :
    InheritsFrom(category, X) = "" => get_inheritance_path(categories, category, X) = <<X>>

\* C16: a second call of get_inheritance_path(X), or of
\* compute_descendants(X), that follows the first with no modification of the
\* index in between returns what the first returned.
C16_ConsecutiveCallsReturnEqualResults ==
  \A category \in Cats : \A X \in Names :
    /\ get_inheritance_path(get_inheritance_path_store(categories, category, X), category, X)
         = get_inheritance_path(categories, category, X)
    /\ compute_descendants(compute_descendants_store(categories, category, X), category, X)
         = compute_descendants(categories, category, X)

\* C16 witness: both results have been memoized for a class with a parent and
\* a descendant
C16_Witness ==
  \E category \in Cats : \E X \in DOMAIN PathMemo(category) :
    /\ X \in DOMAIN DescendantsMemo(category)
    /\ Len(PathMemo(category)[X]) >= 2
    /\ DescendantsMemo(category)[X] # {}

\* C17: a caller changing a list or set it was handed by
\* get_inheritance_path, get_inheritance_paths_bulk, compute_descendants or
\* get_children changes nothing of what any later query returns.
C17_CallerMutationLeavesQueriesUnchanged ==
  [][(held.kind # "none" /\ ~held.mutated /\ held'.mutated)
       => \A category \in Cats : \A X \in Names :
            /\ get_inheritance_path(categories', category, X)
                 = get_inheritance_path(categories, category, X)
            /\ get_inheritance_paths_bulk(categories', category, Names)
                 = get_inheritance_paths_bulk(categories, category, Names)
            /\ compute_descendants(categories', category, X)
                 = compute_descendants(categories, category, X)
            /\ get_children(categories', category, X)
                 = get_children(categories, category, X)]_vars

\* C17 witness: the caller has appended to the list it was handed on a memo
\* miss, and the memoized path is still the one computed
C17_Witness ==
  /\ held.kind = "list" /\ held.mutated
  /\ held.name \in DOMAIN PathMemo(held.category)
  /\ Len(held.list) = Len(PathMemo(held.category)[held.name]) + 1
  /\ Len(held.list) >= 3

\* a call a thread has returned from has its effect in the current snapshot
UpdatePresent(u) ==
  CASE u[1] = "add_entry" -> u[3] \in DOMAIN EntriesOf(u[2])
    [] u[1] = "add_child" -> u[4] \in get_children(categories, u[2], u[3])
    [] u[1] = "get_inheritance_path" -> u[4] = "stored" => u[3] \in DOMAIN PathMemo(u[2])
    [] OTHER -> TRUE

\* C18: when the threads have returned from their calls, no update is lost:
\* every record added by add_entry, every edge added by add_child and every
\* path stored by get_inheritance_path is in the category's snapshot.
C18_NoUpdateLostUnderThreads ==
  (\A t \in Threads : threads[t].pc = "idle")
    => \A t \in Threads : \A u \in threads[t].completed : UpdatePresent(u)

\* C19: a published CategoryCache is never modified in place: a reader that
\* holds an earlier snapshot finds in it what it read when it took it, after
\* any add_entry, add_child, bulk_add_entries, update_cache or memo store;
\* and the object a category refers to holds the category's current index.
C19_PublishedSnapshotNeverModified ==
  /\ heap.reader # 0 => heap.objs[heap.reader] = heap.seen
  /\ \A category \in DOMAIN heap.at : heap.objs[heap.at[category]] = categories[category]

\* C19 witness: the category has been replaced since the reader took its
\* snapshot, which differs from the current one, and a path has been memoized
C19_Witness ==
  \E category \in DOMAIN heap.at :
    /\ heap.reader # 0
    /\ heap.made = MaxObjects
    /\ heap.at[category] # heap.reader
    /\ heap.seen # categories[category]
    /\ DOMAIN categories[category].inheritance_paths # {}

\* the last record of the batch for class name n
LastRecord(batch, n) ==
  batch[CHOOSE i \in 1..Len(batch) :
          /\ batch[i].class_name = n
          /\ \A j \in (i + 1)..Len(batch) : batch[j].class_name # n]

\* C20: bulk_add_entries(category, records), called in any state of the
\* index, replaces the category's index:
\* afterwards entries holds exactly the supplied records (the last one for a
\* repeated name), entries_lower and children are derived from exactly those
\* records, and both memo maps are empty.
C20_BulkAddReplacesIndex ==
  \A category \in Cats : \A batch \in Batches(MaxBatch) :
    LET after == bulk_add_entries(categories, category, batch)[category]
        supplied == {batch[i].class_name : i \in 1..Len(batch)}
    IN /\ DOMAIN after.entries = supplied
       /\ \A n \in supplied : after.entries[n] = LastRecord(batch, n)
       /\ DOMAIN after.entries_lower = {Lower(n) : n \in supplied}
       /\ \A l \in DOMAIN after.entries_lower :
            after.entries_lower[l] \in supplied /\ Lower(after.entries_lower[l]) = l
       /\ DOMAIN after.children = {after.entries[n].inherits_from : n \in supplied} \ {""}
       /\ \A p \in DOMAIN after.children :
            after.children[p] = {n \in supplied : after.entries[n].inherits_from = p}
       /\ after.inheritance_paths = EmptyMap
       /\ after.descendants = EmptyMap

\* C20 witness: a bulk load has replaced an index that held another class
\* (the manager's class-to-category map still knows it); the new index has
\* records and children and no memo entry
C20_Witness ==
  \E category \in Cats :
    /\ \E n \in DOMAIN class_to_category : n \notin DOMAIN EntriesOf(category)
    /\ Cardinality(DOMAIN EntriesOf(category)) = 2
    /\ DOMAIN ChildrenOf(category) # {}
    /\ PathMemo(category) = EmptyMap /\ DescendantsMemo(category) = EmptyMap

(* ----------------------- compute_descendants_bulk ---------------------- *)
\* the classes whose path, as get_inheritance_path returns it, holds n after
\* its first element
PathDescendants(category, n) ==
  {c \in DOMAIN EntriesOf(category) :
     LET path == get_inheritance_path(categories, category, c)
     IN path # <<>> /\ n \in Range(Tail(path))}

C22_BulkMemoReplacesPriorMemo ==
  [][\A category \in Cats :
       ComputeDescendantsBulk(category)
         => \A n \in DOMAIN CatGet(categories', category).descendants :
              CatGet(categories', category).descendants[n] = PathDescendants(category, n)]_vars

(* ------------------------- the manager-wide index ---------------------- *)
\* C23: after any sequence of add_entry and bulk_add_entries calls,
\* get_category_for_class(n) = c implies that category c holds a record named
\* n, and get_category_for_class(n) is None only if no category holds a record
\* named n.
C23_GlobalIndexNamesOwningCategory ==
  \A n \in Names :
    LET c == get_category_for_class(class_to_category, class_to_category_lower, n, TRUE)
    IN /\ c # "None" => n \in DOMAIN EntriesOf(c)
       /\ c = "None" => \A d \in DOMAIN categories : n \notin DOMAIN EntriesOf(d)

(* --------------------------- cycle detection --------------------------- *)
\* C24: cycle detection does not change resolution: for every class X,
\* get_inheritance_path(category, X) returns the sequence of the plain walk
\* _get_raw_path(category, X), whether or not _detect_inheritance_cycle
\* reports a cycle.
C24_CycleDetectionLeavesPathUnchanged ==
  \A category \in Cats :
    \A X \in Names :
      get_inheritance_path(categories, category, X) = _get_raw_path(categories, category, X)

(* ---------------------------- lookup by name --------------------------- *)
\* C25: names that are equal when lowercased get the same record from
\* get_entry(case_sensitive=False), and the same answer from the facade's
\* get_class and has_class in their default mode; get_entry in its
\* case-sensitive mode returns None for a name no record is spelled as.
C25_LookupIgnoresCaseOnRequest ==
  \A category \in Cats :
    \A n1 \in Names :
      /\ \A n2 \in Names :
           Lower(n1) = Lower(n2)
             => /\ get_entry_case_insensitive(categories, category, n1)
                     = get_entry_case_insensitive(categories, category, n2)
                /\ api_get_class(api, categories, category, n1, FALSE)
                     = api_get_class(api, categories, category, n2, FALSE)
                /\ api_has_class(api, categories, category, n1, FALSE)
                     = api_has_class(api, categories, category, n2, FALSE)
      /\ n1 \notin DOMAIN EntriesOf(category)
           => get_entry(categories, category, n1) = NoneEntry

\* get_class in its default mode has answered with a record spelled
\* differently from the name asked for, in a category that also holds no
\* record under the spelling asked for
C25_Witness ==
  /\ api.op = "get_class" /\ api.pc = "done"
  /\ api.args[3] = FALSE
  /\ api.answer # NoneEntry
  /\ api.answer.class_name # api.args[2]
  /\ Lower(api.answer.class_name) = Lower(api.args[2])
  /\ get_entry(categories, api.args[1], api.args[2]) = NoneEntry
  /\ get_entry_case_insensitive(categories, api.args[1], api.args[2]) = api.answer

(* ----------------------------- last write wins ------------------------- *)
\* C26: entries holds one record per name and the last write wins: after
\* add_entry has stored a record over an earlier one of the same name, and
\* after a bulk_add_entries batch that repeats a name, get_entry(category,
\* name) returns the record added last.
C26_LastWriteWins ==
  /\ [][\A category \in Cats : \A entry \in ConfigEntry :
          AddEntry(category, entry) \/ AddRecord(category, entry)
            => /\ get_entry(categories', category, entry.class_name) = entry
               /\ \A n \in DOMAIN EntriesOf(category) \ {entry.class_name} :
                    get_entry(categories', category, n) = get_entry(categories, category, n)]_vars
  /\ [](\A category \in Cats : \A batch \in Batches(MaxBatch) : \A n \in Names :
          get_entry(bulk_add_entries(categories, category, batch), category, n)
            = IF \E i \in 1..Len(batch) : batch[i].class_name = n
              THEN LastRecord(batch, n) ELSE NoneEntry)
  /\ [](\A category \in Cats : \A n \in DOMAIN EntriesOf(category) :
          EntriesOf(category)[n].class_name = n)

\* a record has been added twice under one name with two different parents
\* (both child edges are there); the category holds the one record for it
C26_Witness ==
  \E category \in Cats : \E n \in DOMAIN EntriesOf(category) :
    \E p1, p2 \in Names :
      /\ p1 # p2
      /\ DOMAIN EntriesOf(category) = {n}
      /\ n \in get_children(categories, category, p1)
      /\ n \in get_children(categories, category, p2)
      /\ get_entry(categories, category, n).inherits_from = p2
      /\ nAdds = 2

(* ------------------------ independent categories ----------------------- *)
\* the manager's state with every category but this one taken away
Alone(category) == [c \in {category} \cap DOMAIN categories |-> categories[c]]

\* C27: a CacheManager operation issued for one category leaves the snapshot
\* of every other category as it was (a step that changes a category's
\* snapshot was issued for that category), and path resolution stays inside
\* the category: every name on a path has a record in the category, and the
\* path is the one the category would give on its own, so a parent that has a
\* record only in another category ends the path like an unknown name.
C27_CategoriesAreIndependent ==
  /\ [][\A other \in AllCategories :
          (CatGet(categories', other) # CatGet(categories, other)
             \/ (other \in DOMAIN categories') # (other \in DOMAIN categories))
            => \A category \in AllCategories \ {other} : ~IssuedFor(category)]_vars
  /\ [](\A category \in AllCategories : \A X \in Names :
          LET path == get_inheritance_path(categories, category, X)
          IN /\ Range(path) \subseteq DOMAIN EntriesOf(category)
             /\ path = get_inheritance_path(Alone(category), category, X))

\* a class whose parent has a record in the other category only: its memoized
\* path is the class alone, and the other category has memoized a path too
C27_Witness ==
  \E category \in AllCategories : \E other \in AllCategories \ {category} :
    \E X \in DOMAIN EntriesOf(category) :
      LET parent == EntriesOf(category)[X].inherits_from
      IN /\ parent # "" /\ parent # X
         /\ parent \notin DOMAIN EntriesOf(category)
         /\ parent \in DOMAIN EntriesOf(other)
         /\ X \in DOMAIN PathMemo(category)
         /\ PathMemo(category)[X] = <<X>>
         /\ parent \in DOMAIN PathMemo(other)

(* ------------------------ relations between classes -------------------- *)
\* the inheritance path of the data model: from n along inherits_from up to a
\* root, an unknown name or a repeated name
PlainPath(category, n) == _get_raw_path(categories, category, n)

\* the first name of p that also occurs in q, "None" when there is none
FirstShared(p, q) ==
  LET shared == {i \in 1..Len(p) : Contains(q, p[i])}
  IN IF shared = {} THEN "None" ELSE p[CHOOSE i \in shared : \A j \in shared : i <= j]

\* C28: find_common_ancestor(category, a, b) returns the first name on a's
\* inheritance path that also occurs on b's inheritance path, and None when
\* one of the classes is unknown or the paths share no name.
C28_CommonAncestorIsFirstSharedName ==
  api.op = "find_common_ancestor" /\ api.pc # "idle"
    => /\ api.pc = "done"
       /\ api.answer = FirstShared(PlainPath(api.args[1], api.args[2]),
                                   PlainPath(api.args[1], api.args[3]))

\* C29: is_descendant_of(category, child, ancestor) is true exactly when
\* ancestor occurs on child's inheritance path after the first element; it is
\* false for a class and itself.
C29_DescendantIffLaterOnPath ==
  api.op = "is_descendant_of" /\ api.pc # "idle"
    => /\ api.pc = "done"
       /\ api.answer = (\E i \in 2..Len(PlainPath(api.args[1], api.args[2])) :
                          PlainPath(api.args[1], api.args[2])[i] = api.args[3])
       /\ api.args[2] = api.args[3] => api.answer = FALSE

(* --------------------------- find_class_category ----------------------- *)
\* category c holds a class matching name n
HoldsClass(c, n, case_sensitive) ==
  IF case_sensitive THEN n \in DOMAIN EntriesOf(c)
  ELSE \E m \in DOMAIN EntriesOf(c) : Lower(m) = Lower(n)

\* C30: find_class_category(name, case_sensitive) returns a category that
\* holds a class matching name (exactly, or ignoring case), and None only
\* when no category holds one, whatever earlier calls have cached.
C30_FoundCategoryHoldsClass ==
  api.op = "find_class_category" /\ api.pc = "done"
    => /\ api.answer # "None"
            => api.answer \in AllCategories
               /\ HoldsClass(api.answer, api.args[1], api.args[2])
       /\ api.answer = "None"
            => \A c \in AllCategories : ~HoldsClass(c, api.args[1], api.args[2])

\* find_class_category has found, ignoring case, a class spelled differently
\* in the section cached last, after the section cached first had none
C30_Witness ==
  /\ api.op = "find_class_category" /\ api.pc = "done"
  /\ api.args[2] = FALSE
  /\ Len(api.order) = 2
  /\ api.answer = api.order[2]
  /\ ~HoldsClass(api.order[1], api.args[1], FALSE)
  /\ api.args[1] \notin DOMAIN EntriesOf(api.answer)
  /\ HoldsClass(api.answer, api.args[1], FALSE)

(* ------------------------------ malformed rows ------------------------- *)
\* a row with nine fields whose NumProperties field is an integer
WellFormed(row) == row.fields = 9 /\ int_parses(row.num_properties)
WellFormedRows == SelectSeq(parser.rows, WellFormed)

\* C31: a section with malformed rows (a field count other than 9, a
\* non-integer numeric field) still loads: the malformed rows are skipped and
\* exactly the well-formed rows become the category's records.
C31_MalformedRowsAreSkipped ==
  parser.status \notin {"none", "unread"}
    => /\ parser.status = "loaded"
       /\ EntriesOf(Sections[1])
            = entries_dict([i \in 1..Len(WellFormedRows) |->
                              [class_name |-> WellFormedRows[i].class_name,
                               inherits_from |-> WellFormedRows[i].inherits_from]])

(* ----------------------- lazy and bulk computation --------------------- *)
\* the manager's state with the memo maps of category emptied: the same
\* records before any query
Unqueried(category) ==
  IF category \notin DOMAIN categories THEN categories
  ELSE [categories EXCEPT ![category].inheritance_paths = EmptyMap,
                          ![category].descendants = EmptyMap]

\* C32: for fixed records, get_inheritance_path(category, X) returns the same
\* sequence whatever path operations ran before it: it equals the path
\* computed lazily on the records before any query, for every class X,
\* classes on or leading into a cycle included.
C32_PathIndependentOfEarlierQueries ==
  \A category \in Cats : \A X \in Names :
    get_inheritance_path(categories, category, X)
      = get_inheritance_path(Unqueried(category), category, X)

\* C33: for fixed records, compute_descendants(category, X) returns the same
\* set on the freshly loaded category and after compute_descendants_bulk has
\* filled the memo, for every X and every hierarchy, cyclic ones included.
C33_DescendantsSameAfterBulk ==
  \A category \in Cats : \A X \in Names :
    compute_descendants(compute_descendants_bulk(Unqueried(category), category), category, X)
      = compute_descendants(Unqueried(category), category, X)

\* C34: when compute_descendants(category, X) misses the descendants memo, the
\* inheritance paths it resolves for the category's other classes are in the
\* category's inheritance_paths memo after the call.
C34_DescendantWalkMemoizesPaths ==
  [][\A category \in Cats : \A X \in Names :
       (ComputeDescendants(category, X) /\ X \notin DOMAIN DescendantsMemo(category))
         => \A cls \in DOMAIN EntriesOf(category) \ {X} :
              cls \in DOMAIN CatGet(categories', category).inheritance_paths]_vars

\* C35: when a category holds a record spelled exactly n, the case-insensitive
\* get_entry(category, n) and the facade's get_class(category, n) return the
\* record named n, also when another record differs from n in letter case only.
C35_ExactSpellingWinsIgnoringCase ==
  \A category \in Cats : \A n \in Names :
    n \in DOMAIN EntriesOf(category)
      => /\ get_entry_case_insensitive(categories, category, n) = EntriesOf(category)[n]
         /\ api_get_class(api, categories, category, n, FALSE) = EntriesOf(category)[n]

\* the data a category indexes: records, lowercase aliases, children
Indexed(cats, category) ==
  LET cache == CatGet(cats, category)
  IN <<cache.entries, cache.entries_lower, cache.children>>

\* C36: get_entry, get_children, get_children_bulk, get_inheritance_path,
\* get_inheritance_paths_bulk, precompute_all_paths, compute_descendants and
\* compute_descendants_bulk leave every category's entries, entries_lower and
\* children and the two global class-to-category maps unchanged.
C36_QueriesAreReadOnly ==
  [][(\/ \E category \in Cats :
           Indexed(categories', category) # Indexed(categories, category)
      \/ class_to_category' # class_to_category
      \/ class_to_category_lower' # class_to_category_lower)
       => ~Query]_vars

\* every kind of memo has been filled over a category that holds records with
\* a parent, an alias and a child index
C36_Witness ==
  \E category \in Cats :
    /\ DOMAIN PathMemo(category) # {}
    /\ DOMAIN DescendantsMemo(category) # {}
    /\ \E n \in DOMAIN EntriesOf(category) : get_children(categories, category, n) # {}
    /\ class_to_category # EmptyMap

\* C37: after any sequence of add_entry and bulk_add_entries calls the keys of
\* a category's entries_lower are exactly the lowercased names of its entries,
\* and every value is a name of entries whose lowercase form is its key.
C37_AliasesMatchEntries ==
  \A category \in Cats :
    LET cache == CatGet(categories, category)
    IN /\ DOMAIN cache.entries_lower = {Lower(n) : n \in DOMAIN cache.entries}
       /\ \A k \in DOMAIN cache.entries_lower :
            /\ cache.entries_lower[k] \in DOMAIN cache.entries
            /\ Lower(cache.entries_lower[k]) = k

\* a bulk load followed by an add_entry left two names that share one alias
C37_Witness ==
  \E category \in Cats :
    /\ {"A", "a", "B"} \subseteq DOMAIN EntriesOf(category)
    /\ CatGet(categories, category).entries_lower["a"] = "A"
    /\ nAdds = 2

\* a sequence that names records of the category only and no name twice
ProperPath(category, path) ==
  /\ Range(path) \subseteq DOMAIN EntriesOf(category)
  /\ \A i, j \in 1..Len(path) : path[i] = path[j] => i = j

\* C38: every sequence returned by get_inheritance_path or
\* get_inheritance_paths_bulk, and every sequence stored in the memo (by them or
\* by precompute_all_paths), names no class twice and names only classes that
\* have a record in the category.
C38_PathsHaveNoRepeatsAndOnlyRecords ==
  \A category \in Cats :
    /\ \A X \in Names :
         /\ ProperPath(category, get_inheritance_path(categories, category, X))
         /\ ProperPath(category, get_inheritance_paths_bulk(categories, category, Names)[X])
    /\ \A X \in DOMAIN PathMemo(category) : ProperPath(category, PathMemo(category)[X])
    /\ LET stored == CatGet(precompute_all_paths(categories, category), category).inheritance_paths
       IN \A X \in DOMAIN stored : ProperPath(category, stored[X])

\* a memoized path of two names in a category that holds a cycle and a record
\* whose parent has no record
C38_Witness ==
  \E category \in Cats :
    /\ \E X \in DOMAIN PathMemo(category) : Len(PathMemo(category)[X]) = 2
    /\ \E n \in DOMAIN EntriesOf(category) : ReachesCycle(category, n)
    /\ \E n \in DOMAIN EntriesOf(category) : Dangling(category, n)

(* ---------------------- CacheManager: set_header ----------------------- *)
\* the header rows a caller hands to set_header (a list of column names, kept
\* as the one line it was read from)
Headers == {"ClassName,Source,Category"}

\* set_header: get_or_create_cache publishes an empty snapshot for an absent
\* category; the assignment to the field of the frozen CategoryCache raises
\* and leaves the snapshot as it was
set_header(cats, category, header) ==
  [cats |-> get_or_create_cache(cats, category), raised |-> "FrozenInstanceError"]

HeaderOf(category) == CatGet(categories, category).header

SetHeader(category, header) ==
  /\ categories' = set_header(categories, category, header).cats
  /\ raised' = set_header(categories, category, header).raised
  /\ UNCHANGED <<class_to_category, class_to_category_lower, nAdds, run, api,
                 held, threads, heap, parser>>

NextHeader ==
  \E category \in Cats :
    \/ \E header \in Headers : SetHeader(category, header)
    \/ \E entry \in ConfigEntry : AddRecord(category, entry)
    \/ \E class_name \in Names : GetInheritancePath(category, class_name)
    \/ \E class_name \in Names : ComputeDescendants(category, class_name)

SpecHeader == Init /\ [][NextHeader]_vars

\* C39: set_header(category, header) ends without an exception and the
\* category's snapshot then holds the header; add_entry, add_child,
\* get_inheritance_path and compute_descendants leave the header in place.
C39_SetHeaderRecordsHeader ==
  [][\A category \in Cats :
       /\ \A header \in Headers :
            SetHeader(category, header)
              => /\ raised' = ""
                 /\ CatGet(categories', category).header = header
       /\ (HeaderOf(category) \in Headers /\ ~\E header \in Headers : SetHeader(category, header))
            => CatGet(categories', category).header = HeaderOf(category)]_vars

====
